---------------------------- MODULE Spec2Model ----------------------------
(***************************************************************************)
(* A model of the DrupalREST client (src/unnamed/part_000, lines 1-553,    *)
(* the latest revision of the class; src/drupalRest.js holds earlier       *)
(* revisions of the same file).                                            *)
(*                                                                         *)
(* Eight specifications share the module:                                  *)
(*   SpecDecode      processJSONResult applied to one response body        *)
(*   SpecSave        one top-level entitySave with its uploads and child   *)
(*                   saves                                                 *)
(*   SpecExport      one loadRestExport run                                *)
(*   SpecGet         one entityGet with includeReferences                  *)
(*   SpecExportRefs  one loadRestExport run with includeReferences         *)
(*   SpecSession     login and the operations that read the session        *)
(*   SpecUnknown     entitySave, entityGet and entityRemove called with a  *)
(*                   name the registry does not hold                       *)
(*   SpecCalls       one call of any one operation                         *)
(***************************************************************************)
EXTENDS Integers, Sequences, FiniteSets, TLC

VARIABLES
  \* ---- processJSONResult ----
  dBody,      \* the response body handed to processJSONResult
  dPc,        \* "idle" | "scheduled" | "threw" | "delivered"
  dOut,       \* what processJSONResult computed: [threw, error, data]
  dCb,        \* what its callback received: [count, error, data]
  \* ---- entitySave ----
  rootType,   \* entityType of the top-level entitySave
  rootId,     \* id of the top-level entitySave (0: none)
  content0,   \* the payload as the caller passed it
  content,    \* the caller's payload, mutated in place
  frames,     \* the entitySave invocations: path -> frame
  net,        \* the HTTP requests in flight
  log,        \* history: every request issued and every completion
  nextId,     \* the server: the identifier it gives the next entity it answers with
  cb,         \* the top-level callback: [count, error, data]
  \* ---- loadRestExport ----
  xOpt,       \* options: [paginated, startPage, endPage, each]
  xPc,        \* "idle" | "fetching" | "loading" | "done"
  page,       \* let page
  endPage,    \* let endPage
  notDone,    \* let notDone
  result,     \* let result
  xFetched,   \* history: the page number of every page fetch issued
  xPages,     \* history: the outcome of every page fetch answered
  xEach,      \* history: [item, index] of every options.each call
  xCb,        \* the export's callback: [count, error, list]
  xData,      \* the page whose items are being loaded (includeReferences)
  xIdx,       \* position in that page of the item being loaded
  \* ---- entityGet ----
  gType,      \* entityType of the top-level entityGet
  gId,        \* id of the top-level entityGet
  gOpt,       \* options: [given, refs], refs the includeReferences list
  gFrames,    \* the _entityLoad invocations: path -> [result, outer, fields]
  gNet,       \* the entity reads in flight
  gLog,       \* history: every read issued, answered, attached, called back
  gNext,      \* the server: the revision mark of the next entity it serves
  gCb,        \* the top-level callback: [count, error, data]
  \* ---- the session and the operations that read it ----
  sUser,      \* options.user ("": anonymous access)
  sHeap,      \* the header objects: [session, request]
  sOp,        \* the operation entered last: [name, stage, file, failed]
  sNet,       \* its request in flight
  sLog,       \* history: every request issued, with the headers it carried
  sCb,        \* the callback of that operation: [count, error, data]
  sLeft,      \* history: the session headers as the last login step left them
  sCalls,     \* number of operations the caller has invoked
  \* ---- the run ----
  oper        \* the part of the client this run exercises

decodeVars == <<dBody, dPc, dOut, dCb>>
saveVars   == <<rootType, rootId, content0, content, frames, net, log, nextId, cb>>
exportVars == <<xOpt, xPc, page, endPage, notDone, result,
                xFetched, xPages, xEach, xCb, xData, xIdx>>
getVars == <<gType, gId, gOpt, gFrames, gNet, gLog, gNext, gCb>>
sessionVars == <<sUser, sHeap, sOp, sNet, sLog, sCb, sLeft, sCalls>>
vars == <<decodeVars, saveVars, exportVars, getVars, sessionVars, oper>>

(***************************************************************************)
(* Bounds of the model.                                                    *)
(***************************************************************************)
MaxNum == 2         \* largest number a response body parses to
MaxId == 1          \* largest identifier a caller passes
MaxItems == 2       \* most items in the multi-valued field of a payload
MaxDepth == 2       \* deepest nesting of inline data
MaxInline == 2      \* most items with inline data in one payload, all levels
MaxStart == 1       \* largest options.startPage a caller passes
MaxEnd == 2         \* largest options.endPage a caller passes
MaxPageLen == 2     \* most items on one page of a REST export
MaxFetches == 3     \* page fetches after which the server's pages run out
MaxRefs == 2        \* most reference items in one field of a loaded entity
MaxCalls == 3      \* operations the caller invokes on one client
MaxRefReads == 3    \* most reference items in all pages of one export

(***************************************************************************)
(* JSON values.  A value is a tagged record [t, v]; the tag sorts before   *)
(* the payload so values of different kinds compare without a type clash.  *)
(***************************************************************************)
Null == [t |-> "null"]
Bool(b) == [t |-> "bool", v |-> b]
Num(n) == [t |-> "number", v |-> n]
Str(s) == [t |-> "string", v |-> s]
Arr(s) == [t |-> "array", v |-> s]
Obj(f) == [t |-> "object", v |-> f]

EmptyFn == [k \in {} |-> Null]

\* JavaScript truthiness of a JSON value
Truthy(x) ==
  CASE x.t = "null" -> FALSE
    [] x.t = "bool" -> x.v
    [] x.t = "number" -> x.v # 0
    [] x.t = "string" -> x.v # ""
    [] OTHER -> TRUE

\* the `in` operator throws a TypeError on a primitive right-hand side
InThrows(x) == x.t \in {"null", "bool", "number", "string"}
In(k, x) == IF x.t = "object" THEN k \in DOMAIN x.v ELSE FALSE

NoError == Null
Error(msg) == [t |-> "Error", v |-> msg]
TypeError == [t |-> "TypeError"]
FetchError == [t |-> "FetchError"]

(***************************************************************************)
(* Response bodies.  A body is text that either is not JSON (garbage) or   *)
(* is the serialisation of a JSON value.                                   *)
(***************************************************************************)
Garbage(raw) == [json |-> FALSE, raw |-> raw]
Json(x) == [json |-> TRUE, value |-> x]

\* JSON.parse: the value, or a SyntaxError
JSONparse(body) ==
  IF body.json THEN [ok |-> TRUE, value |-> body.value]
               ELSE [ok |-> FALSE, value |-> Null]

(***************************************************************************)
(* processJSONResult, part_000:535-550.  The result is the pair handed to  *)
(* the callback by the timer of line 549, or threw = TRUE when line 544    *)
(* raises before the timer is set.                                         *)
(***************************************************************************)
processJSONResult(body) ==
  LET p == JSONparse(body)
      data0 == IF p.ok THEN p.value ELSE Null
      error0 == IF p.ok THEN NoError ELSE Error(Str(body.raw))
  IN  IF Truthy(data0) /\ InThrows(data0)
        THEN [threw |-> TRUE, error |-> TypeError, data |-> Null]
      ELSE IF Truthy(data0) /\ In("message", data0)
        THEN [threw |-> FALSE, error |-> Error(data0.v["message"]), data |-> Null]
      ELSE [threw |-> FALSE, error |-> error0, data |-> data0]


(***************************************************************************)
(* SpecDecode: processJSONResult applied to one body.                      *)
(***************************************************************************)
DecodeKeys == {"message", "nid", "csrf_token"}
DecodeVals == {Str("Not found"), Num(1), Null}
DecodeObjects == UNION {[S -> DecodeVals] : S \in SUBSET DecodeKeys}

DecodeBodies ==
  {Garbage(r) : r \in {"", "<html>"}}
    \cup {Json(x) : x \in {Null, Bool(TRUE), Bool(FALSE), Str(""), Str("ok")}}
    \cup {Json(Num(n)) : n \in 0..MaxNum}
    \cup {Json(Arr(s)) : s \in {<<>>, <<Num(1)>>, <<Obj(EmptyFn)>>}}
    \cup {Json(Obj(f)) : f \in DecodeObjects}

NoCb == [count |-> 0, error |-> NoError, data |-> Null]

DecodeIdle ==
  /\ dPc = "idle"
  /\ dOut = [threw |-> FALSE, error |-> NoError, data |-> Null]
  /\ dCb = NoCb

\* part_000:535-549 up to the setTimeout call
DecodeCall ==
  /\ dPc = "idle"
  /\ dOut' = processJSONResult(dBody)
  /\ dPc' = IF dOut'.threw THEN "threw" ELSE "scheduled"
  /\ UNCHANGED <<dBody, dCb>>

\* part_000:549, the timer firing
DecodeTimer ==
  /\ dPc = "scheduled"
  /\ dCb' = [count |-> dCb.count + 1, error |-> dOut.error, data |-> dOut.data]
  /\ dPc' = "delivered"
  /\ UNCHANGED <<dBody, dOut>>


(***************************************************************************)
(* The entity registry, part_000:3-33.  A handle is a path, held as its    *)
(* segments; "%" is the identifier placeholder.  file has no createHandle. *)
(***************************************************************************)
entityConfiguration == [
  node      |-> [entityHandle |-> <<"node", "%">>,
                 createHandle |-> <<"node">>, idField |-> "nid"],
  media     |-> [entityHandle |-> <<"media", "%", "edit">>,
                 createHandle |-> <<"entity", "media">>, idField |-> "mid"],
  taxonomy  |-> [entityHandle |-> <<"taxonomy", "term", "%">>,
                 createHandle |-> <<"taxonomy", "term">>, idField |-> "tid"],
  file      |-> [entityHandle |-> <<"entity", "file", "%">>, idField |-> "fid"],
  paragraph |-> [entityHandle |-> <<"entity", "paragraph", "%">>,
                 createHandle |-> <<"entity", "paragraph">>, idField |-> "pid"],
  user      |-> [entityHandle |-> <<"user", "%">>,
                 createHandle |-> <<"entity", "user">>, idField |-> "uid"] ]

EntityTypes == DOMAIN entityConfiguration

\* entityConfiguration[entityType] of part_000:109, 143 and 203: undefined
\* for a name the registry does not hold, and any property read of it
\* (def.entityHandle, def.createHandle) throws a TypeError
Registered(entityType) == entityType \in EntityTypes

\* def.createHandle: undefined, which string concatenation renders as
\* "undefined", when the descriptor has none
CreateHandleOf(def) ==
  IF "createHandle" \in DOMAIN def THEN def.createHandle ELSE <<"undefined">>

\* String.prototype.replace(pattern, id) with a string pattern: the first
\* occurrence only
RECURSIVE Replace(_, _, _)
Replace(handle, pattern, id) ==
  IF handle = <<>> THEN <<>>
  ELSE IF Head(handle) = pattern THEN <<ToString(id)>> \o Tail(handle)
  ELSE <<Head(handle)>> \o Replace(Tail(handle), pattern, id)

\* part_000:183, the URL of the entity write (`id ? ... : ...`, id 0 is
\* the absent identifier)
Mut_SaveUrl_noSubst(def, id) ==
  IF id # 0 THEN def.entityHandle ELSE CreateHandleOf(def)

SaveUrl(def, id) ==
  IF id # 0 THEN Replace(def.entityHandle, "%", id) ELSE CreateHandleOf(def)

\* part_000:185
SaveMethod(id) == IF id # 0 THEN "PATCH" ELSE "POST"

\* part_000:154, [entityType, content.type[0].target_id, key].join('/')
\* appended to 'file/upload/' at line 289
Mut_UploadUrl_noField(entityType, payload, key) ==
  <<"file", "upload", entityType, payload["type"][1].target_id>>

UploadUrl(entityType, payload, key) ==
  <<"file", "upload", entityType, payload["type"][1].target_id, key>>

(***************************************************************************)
(* Payloads.  A payload maps each field, in the key order Fields, to its   *)
(* item sequence.  A reference item is [target_type, target_id] with an    *)
(* optional data (the inline payload or the file); target_id 0 is the      *)
(* absent identifier.                                                      *)
(***************************************************************************)
Fields == <<"type", "title", "field_a", "field_b">>
FieldNames == {Fields[i] : i \in 1..Len(Fields)}

HasData(value) == "data" \in DOMAIN value

\* `value.data` of part_000:152
RECURSIVE PayloadAt(_, _)
PayloadAt(c, path) ==
  IF path = <<>> THEN c
  ELSE PayloadAt(c[Head(path).key][Head(path).index].data, Tail(path))

\* the item a path step names, seen from the payload p that holds it
ItemAt(c, path, key, index) == PayloadAt(c, path)[key][index]

\* an in-place assignment item.<field> = v somewhere in the caller's payload
RECURSIVE AssignAt(_, _, _, _, _, _)
AssignAt(c, path, key, index, f, v) ==
  IF path = <<>>
    THEN [c EXCEPT ![key][index] =
            [g \in DOMAIN @ \cup {f} |-> IF g = f THEN v ELSE @[g]]]
    ELSE LET h == Head(path)
         IN  [c EXCEPT ![h.key][h.index].data =
                AssignAt(@, Tail(path), key, index, f, v)]


(***************************************************************************)
(* The machine state the synchronous parts of entitySave work on:          *)
(*   S = [content, frames, net, log, cb].                                  *)
(* A frame is one entitySave invocation, named by the path of [key, index] *)
(* steps from the caller's payload down to the inline data it saves:       *)
(*   entityType, id  the arguments                                         *)
(*   running, iterDone, called   async.eachOf's counters and its once()    *)
(*   series[k]       async.eachOfSeries over field k: the item it waits on *)
(***************************************************************************)
NewFrame(entityType, id) ==
  [entityType |-> entityType, id |-> id, running |-> 0, iterDone |-> FALSE,
   called |-> FALSE,
   series |-> [k \in FieldNames |-> [pos |-> 0, st |-> "idle"]]]

Front(path) == SubSeq(path, 1, Len(path) - 1)
Last(path) == path[Len(path)]

Request(kind, owner, key, index, url) ==
  [kind |-> kind, owner |-> owner, key |-> key, index |-> index, url |-> url]

\* result[idField][0].value of part_000:157 and 169: the value, or a
\* TypeError when a step of the access reads a property of undefined
ReadId(data, idField) ==
  IF data.t # "object" \/ idField \notin DOMAIN data.v
    THEN [threw |-> TRUE, value |-> 0]
  ELSE LET x == data.v[idField]
       IN  IF x.t # "array" \/ Len(x.v) = 0
             THEN [threw |-> x.t # "string" \/ x.v = "", value |-> 0]
           ELSE LET el == x.v[1]
                IN  IF el.t = "null" THEN [threw |-> TRUE, value |-> 0]
                    ELSE IF el.t = "object" /\ "value" \in DOMAIN el.v
                              /\ el.v["value"].t = "number"
                      THEN [threw |-> FALSE, value |-> el.v["value"].v]
                    ELSE [threw |-> FALSE, value |-> 0]

\* the field under which the caller of a child save reads the identifier,
\* part_000:162 and 169
ChildIdField(parentType, targetType) ==
  entityConfiguration[targetType].idField

\* the id argument of the recursive call, part_000:166
ChildSaveId(value) == value.target_id

RECURSIVE StartSave(_, _, _, _), StartFields(_, _, _), SeriesStep(_, _, _, _),
          FieldDone(_, _, _, _), FinalCallback(_, _, _), Callback(_, _, _, _)

\* fileUpload, part_000:273-293: the download of file.src when the file has
\* no content, else the upload itself
fileUpload(S, path, key, index, url) ==
  LET file == ItemAt(S.content, path, key, index).data
      kind == IF "content" \notin DOMAIN file /\ "src" \in DOMAIN file
                THEN "download" ELSE "upload"
  IN  [S EXCEPT
        !.net = @ \cup {Request(kind, path, key, index, url)},
        !.log = Append(@, [e |-> "req", kind |-> kind, owner |-> path,
                           key |-> key, index |-> index, method |-> "POST",
                           url |-> url])]

\* the series callback of one field reaching async.eachOf's
\* iterateeCallback, part_000:178
FieldDone(S, path, key, err) ==
  LET S1 == [S EXCEPT !.frames[path].running = @ - 1,
                      !.frames[path].series[key].st =
                         IF err # NoError THEN "failed" ELSE "finished"]
      f == S1.frames[path]
  IN  IF err # NoError THEN FinalCallback(S1, path, err)
      ELSE IF f.iterDone /\ f.running <= 0 THEN FinalCallback(S1, path, NoError)
      ELSE S1

\* async.eachOfSeries over field key from item index on, part_000:151-178
Mut_SeriesStep_skipWait(S, path, key, index) ==
  LET a == PayloadAt(S.content, path)[key]
  IN  IF index > Len(a) THEN FieldDone(S, path, key, NoError)
      ELSE LET value == a[index]
               S1 == [S EXCEPT !.frames[path].series[key] =
                                  [pos |-> index, st |-> "waiting"]]
           IN  IF ~HasData(value) THEN SeriesStep(S, path, key, index + 1)
               ELSE IF value.target_type = "fileUpload"
                 THEN SeriesStep(
                        fileUpload(S1, path, key, index,
                          UploadUrl(S.frames[path].entityType,
                                    PayloadAt(S.content, path), key)),
                        path, key, index + 1)
               ELSE StartSave(S1, path \o <<[key |-> key, index |-> index]>>,
                              value.target_type, ChildSaveId(value))

SeriesStep(S, path, key, index) ==
  LET a == PayloadAt(S.content, path)[key]
  IN  IF index > Len(a) THEN FieldDone(S, path, key, NoError)
      ELSE LET value == a[index]
               S1 == [S EXCEPT !.frames[path].series[key] =
                                  [pos |-> index, st |-> "waiting"]]
           IN  IF ~HasData(value) THEN SeriesStep(S, path, key, index + 1)
               ELSE IF value.target_type = "fileUpload"
                 THEN fileUpload(S1, path, key, index,
                        UploadUrl(S.frames[path].entityType,
                                  PayloadAt(S.content, path), key))
               ELSE StartSave(S1, path \o <<[key |-> key, index |-> index]>>,
                              value.target_type, ChildSaveId(value))

\* async.eachOf starting every field's series in key order, part_000:149-151
StartFields(S, path, n) ==
  IF n > Len(Fields) THEN S
  ELSE StartFields(
         SeriesStep([S EXCEPT !.frames[path].running = @ + 1],
                    path, Fields[n], 1),
         path, n + 1)

\* entitySave up to the first point where it waits, part_000:142-178
Mut_StartSave_writeFirst(S, path, entityType, id) ==
  FinalCallback(
    [S EXCEPT !.frames = (path :> NewFrame(entityType, id)) @@ @],
    path, NoError)

StartSave(S, path, entityType, id) ==
  LET S1 == [S EXCEPT !.frames = (path :> NewFrame(entityType, id)) @@ @]
      S2 == StartFields(S1, path, 1)
      S3 == [S2 EXCEPT !.frames[path].iterDone = TRUE]
  IN  IF S3.frames[path].running <= 0
        THEN FinalCallback(S3, path, NoError)
        ELSE S3

\* the final callback of async.eachOf, part_000:179-191, behind its once()
Mut_FinalCallback_noOnce(S, path, err) ==
  LET S1 == [S EXCEPT !.frames[path].called = TRUE]
      f == S.frames[path]
      def == entityConfiguration[f.entityType]
  IN  IF err # NoError THEN Callback(S1, path, err, Null)
      ELSE IF ~Registered(f.entityType)
        THEN [S1 EXCEPT !.log = Append(@, [e |-> "throw", owner |-> path,
                                           error |-> TypeError])]
      ELSE [S1 EXCEPT
             !.net = @ \cup {Request("write", path, "", 0, SaveUrl(def, f.id))},
             !.log = Append(@, [e |-> "req", kind |-> "write", owner |-> path,
                                key |-> "", index |-> 0,
                                method |-> SaveMethod(f.id),
                                url |-> SaveUrl(def, f.id),
                                body |-> PayloadAt(S.content, path)])]

FinalCallback(S, path, err) ==
  IF S.frames[path].called THEN S
  ELSE LET S1 == [S EXCEPT !.frames[path].called = TRUE]
           f == S.frames[path]
           def == entityConfiguration[f.entityType]
       IN  IF err # NoError THEN Callback(S1, path, err, Null)
           ELSE IF ~Registered(f.entityType)
             \* part_000:183, def is undefined: the TypeError leaves the
             \* final callback, no request is made and no callback called
             THEN [S1 EXCEPT !.log = Append(@, [e |-> "throw", owner |-> path,
                                                error |-> TypeError])]
           ELSE [S1 EXCEPT
                  !.net = @ \cup {Request("write", path, "", 0, SaveUrl(def, f.id))},
                  !.log = Append(@, [e |-> "req", kind |-> "write", owner |-> path,
                                     key |-> "", index |-> 0,
                                     method |-> SaveMethod(f.id),
                                     url |-> SaveUrl(def, f.id),
                                     body |-> PayloadAt(S.content, path)])]

\* the completion of one dependency of frame path, part_000:155-159 (an
\* upload, read under 'fid') and 167-171 (a child save, read under idField)
Mut_DependencyDone_markItem(S, path, key, index, kind, idField, err, data) ==
  LET r == ReadId(data, idField)
      ev == [e |-> "dep", kind |-> kind, owner |-> path, key |-> key,
             index |-> index, error |-> err,
             ok |-> err = NoError /\ ~r.threw,
             id |-> IF err = NoError /\ ~r.threw THEN r.value ELSE 0]
      S1 == [S EXCEPT !.log = Append(@, ev)]
  IN  IF err # NoError
        THEN FieldDone(S1, path, key, err)
      ELSE IF r.threw
        THEN [S1 EXCEPT !.frames[path].series[key].st = "crashed"]
      ELSE SeriesStep(
             [S1 EXCEPT !.content =
                AssignAt(AssignAt(@, path, key, index, "target_id", r.value),
                         path, key, index, "resolved", TRUE)],
             path, key, index + 1)

Mut_DependencyDone_noRewrite(S, path, key, index, kind, idField, err, data) ==
  LET r == ReadId(data, idField)
      ev == [e |-> "dep", kind |-> kind, owner |-> path, key |-> key,
             index |-> index, error |-> err,
             ok |-> err = NoError /\ ~r.threw,
             id |-> IF err = NoError /\ ~r.threw THEN r.value ELSE 0]
      S1 == [S EXCEPT !.log = Append(@, ev)]
  IN  IF err # NoError
        THEN FieldDone(S1, path, key, err)
      ELSE IF r.threw
        THEN [S1 EXCEPT !.frames[path].series[key].st = "crashed"]
      ELSE SeriesStep(S1, path, key, index + 1)

DependencyDone(S, path, key, index, kind, idField, err, data) ==
  LET r == ReadId(data, idField)
      ev == [e |-> "dep", kind |-> kind, owner |-> path, key |-> key,
             index |-> index, error |-> err,
             ok |-> err = NoError /\ ~r.threw,
             id |-> IF err = NoError /\ ~r.threw THEN r.value ELSE 0]
      S1 == [S EXCEPT !.log = Append(@, ev)]
  IN  IF err # NoError
        THEN FieldDone(S1, path, key, err)
      ELSE IF r.threw
        THEN [S1 EXCEPT !.frames[path].series[key].st = "crashed"]
      ELSE SeriesStep(
             [S1 EXCEPT !.content =
                AssignAt(@, path, key, index, "target_id", r.value)],
             path, key, index + 1)

\* the callback entitySave was given: the caller's, or the closure of the
\* parent's walk
Mut_Callback_rollback(S, path, err, data) ==
  IF path = <<>>
    THEN [S EXCEPT !.cb = [count |-> @.count + 1, error |-> err, data |-> data],
                   !.content = IF err # NoError THEN content0 ELSE @,
                   !.log = Append(@, [e |-> "cb", owner |-> path, error |-> err])]
    ELSE LET parent == Front(path)
             step == Last(path)
             value == ItemAt(S.content, parent, step.key, step.index)
         IN  DependencyDone(S, parent, step.key, step.index, "save",
               ChildIdField(S.frames[parent].entityType, value.target_type),
               err, data)

Mut_Callback_dropData(S, path, err, data) ==
  IF path = <<>>
    THEN [S EXCEPT !.cb = [count |-> @.count + 1, error |-> err, data |-> Null],
                   !.log = Append(@, [e |-> "cb", owner |-> path, error |-> err])]
    ELSE LET parent == Front(path)
             step == Last(path)
             value == ItemAt(S.content, parent, step.key, step.index)
         IN  DependencyDone(S, parent, step.key, step.index, "save",
               ChildIdField(S.frames[parent].entityType, value.target_type),
               err, data)

Callback(S, path, err, data) ==
  IF path = <<>>
    THEN [S EXCEPT !.cb = [count |-> @.count + 1, error |-> err, data |-> data],
                   !.log = Append(@, [e |-> "cb", owner |-> path, error |-> err])]
    ELSE LET parent == Front(path)
             step == Last(path)
             value == ItemAt(S.content, parent, step.key, step.index)
         IN  DependencyDone(S, parent, step.key, step.index, "save",
               ChildIdField(S.frames[parent].entityType, value.target_type),
               err, data)


(***************************************************************************)
(* The inputs of SpecSave: the payloads a caller may pass.                 *)
(***************************************************************************)
BundleOf == [node |-> "article", media |-> "image", taxonomy |-> "tags",
             file |-> "document", paragraph |-> "text", user |-> "user",
             widget |-> "gadget"]

\* an entity-type name the registry does not hold
UnknownType == "widget"

PlainRef == [target_type |-> "taxonomy", target_id |-> 1]
FileContent == [filename |-> "a.png", content |-> "bytes"]
FileSrc == [filename |-> "a.png", src |-> "http://host/a.png"]
Upload(file) == [target_type |-> "fileUpload", target_id |-> 0, data |-> file]
Child(t, tid, p) == [target_type |-> t, target_id |-> tid, data |-> p]
Payload(t, a, b) ==
  [type |-> <<[target_id |-> BundleOf[t]]>>, title |-> <<[value |-> "text"]>>,
   field_a |-> a, field_b |-> b]

SeqsUpTo(S, n) == UNION {[1..m -> S] : m \in 0..n}

LeafItems == {PlainRef, Upload(FileContent), Upload(FileSrc)}
ChildKinds == {<<"paragraph", 0>>, <<"media", 1>>}

\* the child items whose inline data nests at most d levels of saves
RECURSIVE ChildItems(_)
ChildItems(d) ==
  IF d = 0 THEN {}
  ELSE {Child(k[1], k[2], Payload(k[1], inner, <<>>)) :
          k \in ChildKinds,
          inner \in {<<>>, <<Upload(FileContent)>>}
                      \cup {<<c>> : c \in ChildItems(d - 1)}}

Items == LeafItems \cup ChildItems(MaxDepth)

\* the number of reference items carrying inline data, at every depth
RECURSIVE InlineCount(_)
SumInline(a) ==
  LET RECURSIVE Sum(_)
      Sum(i) == IF i > Len(a) THEN 0
                ELSE Sum(i + 1)
                       + (IF ~HasData(a[i]) THEN 0
                          ELSE IF a[i].target_type = "fileUpload" THEN 1
                          ELSE 1 + InlineCount(a[i].data))
  IN  Sum(1)
InlineCount(p) == SumInline(p["field_a"]) + SumInline(p["field_b"])

\* field_a is a multi-valued reference field, field_b a single-valued one
SaveInputs(types) ==
  /\ rootType \in types
  /\ rootId \in 0..MaxId
  /\ \E a \in {s \in SeqsUpTo(Items, IF rootType \in {"node", UnknownType}
                                       THEN MaxItems ELSE 1) :
                   SumInline(s) <= MaxInline} :
       \E b \in SeqsUpTo(Items, IF rootType \in {"node", UnknownType}
                                  THEN 1 ELSE 0) :
         /\ content0 = Payload(rootType, a, b)
         /\ InlineCount(content0) <= MaxInline
  /\ content = content0
  /\ frames = <<>>
  /\ net = {}
  /\ log = <<>>
  /\ nextId = MaxId + 1
  /\ cb = NoCb

InitSave == SaveInputs(EntityTypes)

SaveIdle ==
  /\ rootType = "node" /\ rootId = 0
  /\ content0 = Payload("node", <<>>, <<>>) /\ content = content0
  /\ frames = <<>> /\ net = {} /\ log = <<>> /\ nextId = 0 /\ cb = NoCb

Machine == [content |-> content, frames |-> frames, net |-> net, log |-> log,
            cb |-> cb]

Install(S) ==
  /\ content' = S.content
  /\ frames' = S.frames
  /\ net' = S.net
  /\ log' = S.log
  /\ cb' = S.cb
  /\ UNCHANGED <<rootType, rootId, content0>>

\* the entity a server answers a write or an upload with
Entity(idField, n) == Obj(idField :> Arr(<<Obj("value" :> Num(n))>>))

UploadIdField == "fid"

ResponseIdField(r) ==
  IF r.kind = "write"
    THEN entityConfiguration[frames[r.owner].entityType].idField
    ELSE entityConfiguration["file"].idField

\* the bodies a server may answer with: an error page, an error envelope, a
\* bare JSON primitive, a JSON value without the identifier field, and the
\* entity saved, numbered by the server
ServerBodies(idField) ==
  {Garbage("<html>"), Json(Obj("message" :> Str("Not found"))),
   Json(Bool(TRUE)), Json(Arr(<<>>)), Json(Entity(idField, nextId))}

\* a response reaching the continuation of its request: the caller's or the
\* parent's callback for a write (part_000:193-197), the closure of
\* part_000:155-159 for an upload (part_000:295-299)
Arrived(body) == [arrived |-> TRUE, body |-> body]
Failed == [arrived |-> FALSE]

\* .then(req => req.text()).then(body => processJSONResult(body, callback))
\* .catch(error => callback(error)): what the callback is called with
ResponseResult(outcome) ==
  IF ~outcome.arrived THEN [error |-> FetchError, data |-> Null]
  ELSE LET o == processJSONResult(outcome.body)
       IN  IF o.threw THEN [error |-> o.error, data |-> Null]
           ELSE [error |-> o.error, data |-> o.data]

Deliver(S, r, outcome) ==
  LET res == ResponseResult(outcome)
      S1 == [S EXCEPT !.net = @ \ {r},
                      !.log = Append(@, [e |-> "res", kind |-> r.kind,
                                         owner |-> r.owner, key |-> r.key,
                                         index |-> r.index,
                                         outcome |-> outcome])]
  IN  IF r.kind = "write" THEN Callback(S1, r.owner, res.error, res.data)
      ELSE DependencyDone(S1, r.owner, r.key, r.index, "upload",
                          UploadIdField, res.error, res.data)

\* the caller invokes entitySave(rootType, rootId, content, callback)
SaveCall ==
  /\ DOMAIN frames = {}
  /\ Install(StartSave(Machine, <<>>, rootType, rootId))
  /\ UNCHANGED nextId

\* fetch resolves, the body is decoded and the callback's timer fires
Respond ==
  \E r \in net : \E body \in ServerBodies(ResponseIdField(r)) :
    /\ r.kind \in {"write", "upload"}
    /\ Install(Deliver(Machine, r, Arrived(body)))
    /\ nextId' = nextId + 1

\* fetch rejects: the .catch of part_000:194 and 296
TransportFail ==
  \E r \in net :
    /\ r.kind \in {"write", "upload"}
    /\ Install(Deliver(Machine, r, Failed))
    /\ UNCHANGED nextId

\* fetch(file.src) resolves: file.content = body and fileUpload runs again,
\* part_000:280-285
DownloadDone ==
  \E r \in net :
    /\ r.kind = "download"
    /\ LET file == ItemAt(content, r.owner, r.key, r.index).data
           S1 == [Machine EXCEPT
                    !.net = @ \ {r},
                    !.content = AssignAt(@, r.owner, r.key, r.index, "data",
                                  [filename |-> file.filename, src |-> file.src,
                                   content |-> "blob"]),
                    !.log = Append(@, [e |-> "res", kind |-> "download",
                                       owner |-> r.owner, key |-> r.key,
                                       index |-> r.index,
                                       outcome |-> Arrived(Garbage("blob"))])]
       IN  Install(fileUpload(S1, r.owner, r.key, r.index, r.url))
    /\ UNCHANGED nextId

\* fetch(file.src) rejects: part_000:280 has no .catch, nothing runs
DownloadFail ==
  \E r \in net :
    /\ r.kind = "download"
    /\ net' = net \ {r}
    /\ log' = Append(log, [e |-> "res", kind |-> "download", owner |-> r.owner,
                           key |-> r.key, index |-> r.index,
                           outcome |-> Failed])
    /\ UNCHANGED <<rootType, rootId, content0, content, frames, nextId, cb>>

(***************************************************************************)
(* loadRestExport, part_000:473-533.                                       *)
(***************************************************************************)
\* an option the caller did not pass (undefined), and let endPage = null
Unset == -1
NoPage == -1

SyntaxError == [t |-> "SyntaxError"]
NoExportCb == [count |-> 0, error |-> NoError, list |-> <<>>]

\* part_000:474-476
PaginatedOf(o) == IF o.paginated = "unset" THEN "true" ELSE o.paginated

\* part_000:479, options.startPage || 0
StartPageOf(o) == IF o.startPage = Unset THEN 0 ELSE o.startPage

\* part_000:480-483, options.endPage || null, and endPage = page when
\* paginated is false
Mut_EndPageOf_ignorePaginated(o, pg) ==
  IF o.endPage = Unset \/ o.endPage = 0 THEN NoPage ELSE o.endPage

EndPageOf(o, pg) ==
  IF PaginatedOf(o) = "false" THEN pg
  ELSE IF o.endPage = Unset \/ o.endPage = 0 THEN NoPage ELSE o.endPage

\* part_000:499-501
Mut_NotDoneAfter_keep(data, nd) == nd

NotDoneAfter(data, nd) ==
  IF data.t = "array" /\ Len(data.v) = 0 THEN FALSE ELSE nd

\* the keys of an object in the order async.eachOfSeries visits them
RECURSIVE KeysOf(_)
KeysOf(ks) ==
  IF ks = {} THEN <<>>
  ELSE LET k == CHOOSE x \in ks : TRUE IN <<k>> \o KeysOf(ks \ {k})

\* part_000:505-518 without includeReferences: _entityLoad calls back at
\* once (part_000:131, async.each over undefined), so the calls of
\* options.each(item, i + result.length) for one page happen in one go; i
\* is the position in a list and the key in an object
EachCalls(data, res) ==
  IF data.t = "array"
    THEN [i \in 1..Len(data.v) |->
            [item |-> data.v[i], index |-> Num((i - 1) + Len(res))]]
  ELSE IF data.t = "object"
    THEN LET ks == KeysOf(DOMAIN data.v)
         IN  [i \in 1..Len(ks) |->
                [item |-> data.v[ks[i]],
                 index |-> Str(ks[i] \o ToString(Len(res)))]]
  ELSE <<>>

\* part_000:520, result.concat(data)
Concat(res, data) ==
  IF data.t = "array" THEN res \o data.v ELSE Append(res, data)

Export ==
  [page |-> page, endPage |-> endPage, notDone |-> notDone, result |-> result,
   fetched |-> xFetched, each |-> xEach, cb |-> xCb, pc |-> xPc]

InstallExport(X) ==
  /\ page' = X.page /\ endPage' = X.endPage /\ notDone' = X.notDone
  /\ result' = X.result /\ xFetched' = X.fetched /\ xEach' = X.each
  /\ xCb' = X.cb /\ xPc' = X.pc

\* part_000:531, (err) => callback(err, result)
Mut_ExportFinal_noList(X, err) ==
  [X EXCEPT !.pc = "done",
            !.cb = [count |-> @.count + 1, error |-> err,
                    list |-> IF err = NoError THEN X.result ELSE <<>>]]

ExportFinal(X, err) ==
  [X EXCEPT !.pc = "done",
            !.cb = [count |-> @.count + 1, error |-> err, list |-> X.result]]

RECURSIVE Iteratee(_), Test(_)
\* part_000:488-494: the endPage check, else the fetch of the page
Iteratee(X) ==
  IF X.endPage # NoPage /\ X.page > X.endPage
    THEN Test([X EXCEPT !.notDone = FALSE])
  ELSE [X EXCEPT !.fetched = Append(@, X.page), !.pc = "fetching"]

\* part_000:530, (callback) => callback(null, notDone)
Test(X) == IF X.notDone THEN Iteratee(X) ELSE ExportFinal(X, NoError)

\* part_000:498-524, .then(data => ...)
PageHandler(X, data, each) ==
  LET calls == IF each THEN EachCalls(data, X.result) ELSE <<>>
  IN  Test([X EXCEPT !.notDone = NotDoneAfter(data, @),
                     !.page = @ + 1,
                     !.each = @ \o calls,
                     !.result = Concat(@, data)])

\* an item of a REST export; the server numbers the items it serves
ExportItem(n) == Obj("id" :> Num(n))
ExportEnvelope == Obj("message" :> Str("Forbidden"))

RECURSIVE Served(_)
Served(pages) ==
  IF pages = <<>> THEN 0
  ELSE (IF /\ Last(pages).arrived /\ Last(pages).body.json
           /\ Last(pages).body.value.t = "array"
          THEN Len(Last(pages).body.value.v) ELSE 0) + Served(Front(pages))

ExportList(n) == Arr([i \in 1..n |-> ExportItem(Served(xPages) + i)])

\* the bodies the server answers a page fetch with
ExportBodies ==
  {Json(ExportList(0)), Garbage("<html>")}
    \cup (IF Len(xFetched) < MaxFetches
            THEN {Json(ExportList(n)) : n \in 1..MaxPageLen}
                   \cup {Json(ExportEnvelope)}
            ELSE {})

ExportOptions ==
  [paginated : {"unset", "true", "false"},
   startPage : {Unset} \cup 0..MaxStart,
   endPage : {Unset} \cup 0..MaxEnd,
   each : BOOLEAN]

(***************************************************************************)
(* entityGet and _entityLoad, part_000:108-140.  A path names an           *)
(* invocation: <<>> the caller's entityGet, p \o <<[key, index]>> the read *)
(* _entityLoad of p issued for item index of field key.                    *)
(***************************************************************************)
Ref(t, n) == Obj(("target_type" :> Str(t)) @@ ("target_id" :> Num(n)))

\* the entity the server holds for (type, id), marked with the revision it
\* was served at, with its reference fields
GetEntity(type, id, rev, a, b) ==
  Obj((entityConfiguration[type].idField :> Arr(<<Obj("value" :> Num(id))>>))
      @@ ("rev" :> Num(rev))
      @@ ("field_a" :> Arr(a)) @@ ("field_b" :> Arr(b)))

\* part_000:115, def.entityHandle.replace('%', id)
GetUrl(type, id) == Replace(entityConfiguration[type].entityHandle, "%", id)

\* options without includeReferences ({}), and with the list refs
NoRefs == [given |-> FALSE, refs |-> <<>>]
WithRefs(refs) == [given |-> TRUE, refs |-> refs]

\* the options a read issued by _entityLoad runs with: part_000:133 calls
\* entityGet(type, id, callback), so lines 110-113 make them {}
Mut_NestedOptions_pass(options) == options

NestedOptions(options) == NoRefs

\* the items of result[fieldId], <<>> when it is no list (async.eachOf of
\* undefined calls back at once)
FieldItems(res, fieldId) ==
  IF res.t = "object" /\ fieldId \in DOMAIN res.v /\ res.v[fieldId].t = "array"
    THEN res.v[fieldId].v
    ELSE <<>>

NewLoad(res, refs) ==
  [result |-> res,
   outer |-> [completed |-> 0, length |-> Len(refs), called |-> FALSE],
   fields |-> [n \in 1..Len(refs) |->
                 [completed |-> 0, length |-> Len(FieldItems(res, refs[n])),
                  called |-> FALSE]],
   refs |-> refs]

\* position of the field a read belongs to in the includeReferences list
FieldPos(refs, key) == CHOOSE n \in 1..Len(refs) : refs[n] = key

RECURSIVE entityLoad(_, _, _, _), LoadItems(_, _, _, _), LoadFields(_, _, _),
          RefDone(_, _, _, _, _, _), FieldCb(_, _, _, _), OuterCb(_, _, _),
          GetCallback(_, _, _, _)

\* part_000:109-127, the fetch of entityGet; def.entityHandle of line 115
\* throws out of entityGet when the registry does not hold the type
entityGet(G, path, type, id, options) ==
  IF ~Registered(type)
    THEN [G EXCEPT !.log = Append(@, [e |-> "throw", path |-> path,
                                      type |-> type, id |-> id, url |-> <<>>])]
  ELSE
  [G EXCEPT !.net = @ \cup {[path |-> path, type |-> type, id |-> id,
                             options |-> options]},
            !.log = Append(@, [e |-> "req", path |-> path, type |-> type,
                               id |-> id, url |-> GetUrl(type, id)])]

\* part_000:132-138, async.eachOf(result[fieldId], ...): one read per item,
\* all started before any is answered
LoadItems(G, path, n, i) ==
  LET f == G.frames[path]
      items == FieldItems(f.result, f.refs[n])
  IN  IF i > Len(items) THEN G
      ELSE LoadItems(entityGet(G, path \o <<[key |-> f.refs[n], index |-> i]>>,
                               items[i].v["target_type"].v,
                               items[i].v["target_id"].v,
                               NestedOptions(WithRefs(f.refs))),
                     path, n, i + 1)

\* part_000:131, async.each(options.includeReferences, ...): every field is
\* started; a field without items completes at once
LoadFields(G, path, n) ==
  LET f == G.frames[path]
  IN  IF n > Len(f.refs) THEN G
      ELSE IF f.fields[n].length = 0
        THEN LoadFields(FieldCb(G, path, n, NoError), path, n + 1)
      ELSE LoadFields(LoadItems(G, path, n, 1), path, n + 1)

\* _entityLoad, part_000:130-140
entityLoad(G, path, res, options) ==
  IF ~options.given \/ options.refs = <<>>
    THEN GetCallback([G EXCEPT !.frames = path :> NewLoad(res, <<>>) @@ @],
                     path, NoError, res)
  ELSE LoadFields([G EXCEPT !.frames = path :> NewLoad(res, options.refs) @@ @],
                  path, 1)

\* part_000:133-137, (err, data) => { ...; result[fieldId][index].data = data;
\* done() }
Mut_RefDone_attachFirst(G, path, key, index, err, data) ==
  IF err # NoError THEN FieldCb(G, path, FieldPos(G.frames[path].refs, key), err)
  ELSE LET r == G.frames[path].result
           item == r.v[key].v[1]
           r1 == [r EXCEPT !.v[key].v[1] = Obj(("data" :> data) @@ item.v)]
       IN  FieldCb([G EXCEPT !.frames[path].result = r1,
                             !.log = Append(@, [e |-> "attach", path |-> path,
                                                key |-> key, index |-> 1])],
                   path, FieldPos(G.frames[path].refs, key), NoError)

RefDone(G, path, key, index, err, data) ==
  IF err # NoError THEN FieldCb(G, path, FieldPos(G.frames[path].refs, key), err)
  ELSE LET r == G.frames[path].result
           item == r.v[key].v[index]
           r1 == [r EXCEPT !.v[key].v[index] = Obj(("data" :> data) @@ item.v)]
       IN  FieldCb([G EXCEPT !.frames[path].result = r1,
                             !.log = Append(@, [e |-> "attach", path |-> path,
                                                key |-> key, index |-> index])],
                   path, FieldPos(G.frames[path].refs, key), NoError)

\* the completion of one item of async.eachOf (eachOfArrayLike): the first
\* error, or the last success, calls the field's done, once
FieldCb(G, path, n, err) ==
  LET fl == G.frames[path].fields[n]
  IN  IF err # NoError
        THEN IF fl.called THEN G
             ELSE OuterCb([G EXCEPT !.frames[path].fields[n].called = TRUE],
                          path, err)
      ELSE IF fl.completed + 1 >= fl.length /\ ~fl.called
        THEN OuterCb([G EXCEPT !.frames[path].fields[n].completed = @ + 1,
                               !.frames[path].fields[n].called = TRUE],
                     path, NoError)
      ELSE [G EXCEPT !.frames[path].fields[n].completed = @ + 1]

\* the completion of one field of async.each; part_000:139,
\* (err) => callback(err, result)
OuterCb(G, path, err) ==
  LET o == G.frames[path].outer
  IN  IF err # NoError
        THEN IF o.called THEN G
             ELSE GetCallback([G EXCEPT !.frames[path].outer.called = TRUE],
                              path, err, G.frames[path].result)
      ELSE IF o.completed + 1 >= o.length /\ ~o.called
        THEN GetCallback([G EXCEPT !.frames[path].outer.completed = @ + 1,
                                   !.frames[path].outer.called = TRUE],
                         path, NoError, G.frames[path].result)
      ELSE [G EXCEPT !.frames[path].outer.completed = @ + 1]

\* the callback of the entityGet of path: the caller's, or the closure of
\* part_000:133
GetCallback(G, path, err, data) ==
  IF path = <<>>
    THEN [G EXCEPT !.cb = [count |-> @.count + 1, error |-> err, data |-> data],
                   !.log = Append(@, [e |-> "cb", path |-> path, error |-> err])]
  ELSE RefDone(G, Front(path), Last(path).key, Last(path).index, err, data)

\* part_000:119-127: the answer of a read is decoded; an error goes to the
\* callback, a result to _entityLoad
GetDeliver(G, r, outcome) ==
  LET res == ResponseResult(outcome)
      G1 == [G EXCEPT !.net = @ \ {r},
                      !.log = Append(@, [e |-> "res", path |-> r.path,
                                         outcome |-> outcome])]
  IN  IF res.error # NoError THEN GetCallback(G1, r.path, res.error, Null)
      ELSE entityLoad(G1, r.path, res.data, r.options)

GetMachine == [frames |-> gFrames, net |-> gNet, log |-> gLog, cb |-> gCb]

InstallGet(G) ==
  /\ gFrames' = G.frames /\ gNet' = G.net /\ gLog' = G.log /\ gCb' = G.cb

\* the references a served entity may hold
RefTargets == {Ref("taxonomy", 1), Ref("media", 1)}

\* the bodies the server answers a read with: an error page, an error
\* envelope, or the entity; the entity of the caller's read holds up to
\* MaxRefs references in field_a and one in field_b, a referenced entity up
\* to one in field_a
GetBodies(r) ==
  {Garbage("<html>"), Json(Obj("message" :> Str("Not found")))}
    \cup {Json(GetEntity(r.type, r.id, gNext, a, b)) :
            a \in IF r.path = <<>> THEN SeqsUpTo(RefTargets, MaxRefs)
                  ELSE SeqsUpTo({Ref("taxonomy", 1)}, 1),
            b \in SeqsUpTo({Ref("taxonomy", 1)},
                           IF r.path = <<>> THEN 1 ELSE 0)}

GetOptions ==
  {NoRefs, WithRefs(<<"field_a">>), WithRefs(<<"field_a", "field_b">>),
   WithRefs(<<"field_c", "field_b">>)}

GetIdle ==
  /\ gFrames = <<>> /\ gNet = {} /\ gLog = <<>> /\ gCb = NoCb

GetUnused ==
  /\ gType = "node" /\ gId = 1 /\ gOpt = NoRefs /\ gNext = 0
  /\ GetIdle

InitGet ==
  /\ gType \in {"node", "media"} /\ gId \in 1..MaxId
  /\ gOpt \in GetOptions /\ gNext = 1
  /\ GetIdle

\* the caller invokes entityGet(gType, gId, gOpt, callback)
GetCall ==
  /\ gLog = <<>>
  /\ InstallGet(entityGet(GetMachine, <<>>, gType, gId, gOpt))
  /\ UNCHANGED <<gType, gId, gOpt, gNext>>

\* a read is answered
GetRespond ==
  \E r \in gNet : \E body \in GetBodies(r) :
    /\ InstallGet(GetDeliver(GetMachine, r, Arrived(body)))
    /\ gNext' = gNext + 1
    /\ UNCHANGED <<gType, gId, gOpt>>

\* the fetch of a read rejects, part_000:125-127
GetFail ==
  \E r \in gNet :
    /\ InstallGet(GetDeliver(GetMachine, r, Failed))
    /\ UNCHANGED <<gType, gId, gOpt, gNext>>

ExportIdle ==
  /\ xPc = "idle" /\ page = 0 /\ endPage = NoPage
  /\ notDone = TRUE /\ result = <<>>
  /\ xFetched = <<>> /\ xPages = <<>> /\ xEach = <<>> /\ xCb = NoExportCb
  /\ xData = Null /\ xIdx = 0

ExportUnused == xOpt = [paginated |-> "unset", startPage |-> Unset,
                        endPage |-> Unset, each |-> FALSE] /\ ExportIdle

\* loadRestExport(path, options, callback), part_000:473-487
ExportCall ==
  /\ xPc = "idle"
  /\ InstallExport(Iteratee([Export EXCEPT
       !.page = StartPageOf(xOpt),
       !.endPage = EndPageOf(xOpt, StartPageOf(xOpt)),
       !.notDone = TRUE,
       !.result = <<>>]))
  /\ UNCHANGED <<xOpt, xPages, xData, xIdx>>

\* the page fetch is answered, part_000:497-528: a body req.json() parses
\* goes to the handler, any other to the .catch
PageArrives ==
  /\ xPc = "fetching"
  /\ \E body \in ExportBodies :
       /\ xPages' = Append(xPages, Arrived(body))
       /\ IF JSONparse(body).ok
            THEN InstallExport(PageHandler(Export, JSONparse(body).value,
                                           xOpt.each))
            ELSE InstallExport(ExportFinal(Export, SyntaxError))
  /\ UNCHANGED <<xOpt, xData, xIdx>>

\* the page fetch rejects, part_000:525-528
PageFails ==
  /\ xPc = "fetching"
  /\ xPages' = Append(xPages, Failed)
  /\ InstallExport(ExportFinal(Export, FetchError))
  /\ UNCHANGED <<xOpt, xData, xIdx>>

(***************************************************************************)
(* loadRestExport with includeReferences, part_000:498-524: the items of a *)
(* page are loaded one after the other (async.eachOfSeries), each by       *)
(* _entityLoad with the options of the export.  gOpt holds the             *)
(* includeReferences of those options; gFrames[<<>>] is the load of the    *)
(* item at xIdx.                                                           *)
(***************************************************************************)
ExportRefs ==
  [x |-> Export, data |-> xData, idx |-> xIdx, g |-> GetMachine]

InstallExportRefs(Y) ==
  /\ InstallExport(Y.x) /\ xData' = Y.data /\ xIdx' = Y.idx /\ InstallGet(Y.g)

\* the entries async.eachOfSeries visits: the items of a list, the values
\* of an object
PageLen(data) ==
  IF data.t = "array" THEN Len(data.v)
  ELSE IF data.t = "object" THEN Cardinality(DOMAIN data.v)
  ELSE 0

PageItem(data, pos) ==
  IF data.t = "array" THEN data.v[pos]
  ELSE data.v[KeysOf(DOMAIN data.v)[pos]]

\* the item loaded is the item of the page: what _entityLoad attached to it
\* is in the page
SetPageItem(data, pos, item) ==
  IF data.t = "array" THEN [data EXCEPT !.v[pos] = item]
  ELSE [data EXCEPT !.v[KeysOf(DOMAIN data.v)[pos]] = item]

\* part_000:511, i + result.length
EachIndex(data, pos, res) ==
  IF data.t = "array" THEN Num((pos - 1) + Len(res))
  ELSE Str(KeysOf(DOMAIN data.v)[pos] \o ToString(Len(res)))

RECURSIVE ItemLoop(_), ItemDone(_)
\* part_000:505-523: the iteratee of async.eachOfSeries for the item at
\* idx, and its final callback after the last item
ItemLoop(Y) ==
  IF Y.idx > PageLen(Y.data)
    THEN [Y EXCEPT !.x = Test([Y.x EXCEPT !.result = Concat(@, Y.data)])]
  ELSE LET G0 == [Y.g EXCEPT !.frames = <<>>, !.cb = NoCb,
                             !.log = Append(@, [e |-> "load", pos |-> Y.idx,
                                                page |-> Len(Y.x.fetched)])]
           G1 == entityLoad(G0, <<>>, PageItem(Y.data, Y.idx), gOpt)
       IN  IF G1.cb.count > 0
             THEN ItemDone([Y EXCEPT !.g = G1])
             ELSE [Y EXCEPT !.g = G1, !.x.pc = "loading"]

\* part_000:507-515, (err, item) => { ...; options.each(item, i +
\* result.length); done() }
Mut_ItemDone_onError(Y) ==
  LET item == Y.g.cb.data
      call == [item |-> item, index |-> EachIndex(Y.data, Y.idx, Y.x.result)]
      Y1 == [Y EXCEPT !.x.each = IF xOpt.each THEN Append(@, call) ELSE @,
                      !.g.log = Append(@, [e |-> "each", pos |-> Y.idx,
                                           page |-> Len(Y.x.fetched)])]
  IN  IF Y.g.cb.error # NoError
        THEN [Y1 EXCEPT !.x = ExportFinal(Y1.x, Y.g.cb.error)]
      ELSE ItemLoop([Y1 EXCEPT !.data = SetPageItem(@, Y.idx, item),
                               !.idx = @ + 1])

ItemDone(Y) ==
  IF Y.g.cb.error # NoError
    THEN [Y EXCEPT !.x = ExportFinal(Y.x, Y.g.cb.error)]
  ELSE LET item == Y.g.cb.data
           call == [item |-> item,
                    index |-> EachIndex(Y.data, Y.idx, Y.x.result)]
       IN  ItemLoop([Y EXCEPT
             !.data = SetPageItem(@, Y.idx, item),
             !.x.each = IF xOpt.each THEN Append(@, call) ELSE @,
             !.g.log = Append(@, [e |-> "each", pos |-> Y.idx,
                                  page |-> Len(Y.x.fetched)]),
             !.idx = @ + 1])

\* part_000:498-504, the start of .then(data => ...)
Mut_PageStart_samePage(X, data) == [X EXCEPT !.notDone = NotDoneAfter(data, @)]

PageStart(X, data) ==
  [X EXCEPT !.notDone = NotDoneAfter(data, @), !.page = @ + 1]

\* an item of a REST export with reference items in field_a
RefItem(n, a) == Obj(("id" :> Num(n)) @@ ("field_a" :> Arr(a)))

\* the reference items the pages answered so far hold
RECURSIVE RefsServed(_)
RefsServed(pages) ==
  IF pages = <<>> THEN 0
  ELSE LET o == Last(pages)
           RECURSIVE Sum(_)
           Sum(i) == IF i > Len(o.body.value.v) THEN 0
                     ELSE Len(o.body.value.v[i].v["field_a"].v) + Sum(i + 1)
       IN  (IF o.arrived /\ o.body.json /\ o.body.value.t = "array"
              THEN Sum(1) ELSE 0) + RefsServed(Front(pages))

RefLists == SeqsUpTo({Ref("taxonomy", 1)}, MaxRefs)

RECURSIVE SumLen(_)
SumLen(ls) == IF ls = <<>> THEN 0 ELSE Len(Head(ls)) + SumLen(Tail(ls))

\* the pages the server answers with: lists of items whose references fit
\* the number the server holds; its pages run out one fetch before
\* MaxFetches
ExportRefBodies ==
  {Json(Arr(<<>>)), Garbage("<html>")}
    \cup (IF Len(xFetched) < MaxFetches - 1
            THEN {Json(ExportEnvelope)}
                   \cup {Json(Arr([i \in 1..Len(ls) |->
                                     RefItem(Served(xPages) + i, ls[i])])) :
                           ls \in {l \in SeqsUpTo(RefLists, MaxPageLen) :
                                     /\ l # <<>>
                                     /\ SumLen(l) + RefsServed(xPages)
                                          <= MaxRefReads}}
            ELSE {})

\* the bodies the server answers the read of a reference with
ItemRefBodies(r) ==
  {Garbage("<html>"), Json(Obj("message" :> Str("Not found"))),
   Json(GetEntity(r.type, r.id, gNext, <<>>, <<>>))}

\* the page fetch is answered, part_000:497-528
PageArrivesRefs ==
  /\ xPc = "fetching"
  /\ \E body \in ExportRefBodies :
       /\ xPages' = Append(xPages, Arrived(body))
       /\ IF JSONparse(body).ok
            THEN InstallExportRefs(ItemLoop(
                   [ExportRefs EXCEPT
                      !.x = PageStart(Export, JSONparse(body).value),
                      !.data = JSONparse(body).value,
                      !.idx = 1]))
            ELSE InstallExportRefs(
                   [ExportRefs EXCEPT !.x = ExportFinal(Export, SyntaxError)])
  /\ UNCHANGED <<xOpt, gType, gId, gOpt, gNext>>

\* what the answer of a reference read does: the load of the item goes on,
\* and when it calls back so does the page
ItemRefDeliver(r, outcome) ==
  LET G1 == GetDeliver(GetMachine, r, outcome)
      Y == [ExportRefs EXCEPT !.g = G1]
  IN  IF xPc = "loading" /\ gCb.count = 0 /\ G1.cb.count > 0
        THEN ItemDone(Y)
        ELSE Y

\* the read of a reference is answered, part_000:119-124
ItemRefRespond ==
  \E r \in gNet : \E body \in ItemRefBodies(r) :
    /\ InstallExportRefs(ItemRefDeliver(r, Arrived(body)))
    /\ gNext' = gNext + 1
    /\ UNCHANGED <<xOpt, xPages, gType, gId, gOpt>>

\* the fetch of the read of a reference rejects, part_000:125-127
ItemRefFail ==
  \E r \in gNet :
    /\ InstallExportRefs(ItemRefDeliver(r, Failed))
    /\ UNCHANGED <<xOpt, xPages, gType, gId, gOpt, gNext>>

\* the page fetch rejects, part_000:525-528
PageFailsRefs ==
  /\ PageFails
  /\ UNCHANGED getVars

\* loadRestExport(path, options, callback) with includeReferences
ExportCallRefs ==
  /\ ExportCall
  /\ UNCHANGED getVars

InitExportRefs ==
  /\ xOpt \in {o \in ExportOptions :
                 /\ o.endPage = Unset
                 /\ o.paginated # "true"
                 /\ \/ o.startPage = Unset
                    \/ o.startPage = MaxStart /\ o.each /\ o.paginated = "unset"}
  /\ ExportIdle
  /\ gType = "node" /\ gId = 1 /\ gNext = 1
  /\ gOpt \in {WithRefs(<<"field_a">>), WithRefs(<<"field_c", "field_a">>)}
  /\ GetIdle

(***************************************************************************)
(* The session, part_000:42-106, 202-229 and 273-300.  Header objects live *)
(* in a heap of two cells: "session" is the object the constructor stores  *)
(* in this.sessionHeaders, "request" the object an operation builds for    *)
(* one request.  A headers expression evaluates to [heap, ref]: the heap   *)
(* after evaluation and the cell the expression denotes, so that a copy    *)
(* and an alias of the session are different things.                       *)
(***************************************************************************)
NoHeaders == [k \in {} |-> ""]
SetHeader(h, k, v) == [x \in DOMAIN h \cup {k} |-> IF x = k THEN v ELSE h[x]]

\* this.sessionHeaders = {}, part_000:44
NewHeap == [session |-> NoHeaders, request |-> NoHeaders]

sessionHeaders == sHeap.session

\* headers: this.sessionHeaders, part_000:97, 117 and 495
SessionRef(H) == [heap |-> H, ref |-> "session"]

\* { 'Content-Type': 'application/json', ...this.sessionHeaders },
\* part_000:187-190 and 212-215
JsonHeaders(H) ==
  [heap |-> [H EXCEPT !.request =
               H.session @@ ("Content-Type" :> "application/json")],
   ref |-> "request"]

\* { ...this.sessionHeaders }, part_000:274
Mut_Spread_alias(H) == [heap |-> H, ref |-> "session"]

Spread(H) == [heap |-> [H EXCEPT !.request = H.session], ref |-> "request"]

\* headers[k] = v
AssignHeader(A, k, v) == [A EXCEPT !.heap[A.ref] = SetHeader(@, k, v)]

\* part_000:274-276
UploadHeaders(H, file) ==
  AssignHeader(
    AssignHeader(Spread(H), "Content-Type", "application/octet-stream"),
    "Content-Disposition", file.filename)

NoFile == [filename |-> "", content |-> "", src |-> ""]
\* the entity an operation is called for when the caller names none
NoTarget == [type |-> "node", id |-> 1]
NoOp ==
  [name |-> "none", stage |-> "idle", file |-> NoFile, failed |-> FALSE,
   target |-> NoTarget, first |-> 0, answers |-> <<>>]

Session == [heap |-> sHeap, op |-> sOp, net |-> sNet, log |-> sLog, cb |-> sCb]

InstallSession(S) ==
  /\ sHeap' = S.heap /\ sOp' = S.op /\ sNet' = S.net
  /\ sLog' = S.log /\ sCb' = S.cb

\* an operation is entered: its callback has not been called
SessionStart(S, name, file) ==
  [S EXCEPT !.op = [name |-> name, stage |-> "running", file |-> file,
                    failed |-> FALSE, target |-> NoTarget,
                    first |-> Len(S.log), answers |-> <<>>],
            !.cb = NoCb]

\* fetch(url, {method, headers}) with the headers fetch reads at the call
SessionRequest(S, kind, method, url, heap, headers) ==
  LET r == [kind |-> kind, method |-> method, url |-> url,
            headers |-> headers]
  IN  [S EXCEPT !.heap = heap, !.net = @ \cup {r}, !.log = Append(@, r)]

SessionCallback(S, err, data) ==
  [S EXCEPT !.op.stage = "done",
            !.cb = [count |-> @.count + 1, error |-> err, data |-> data]]

\* an exception or a rejection nothing handles: the operation ends without
\* its callback
SessionLost(S) == [S EXCEPT !.op.stage = "lost"]

\* login, part_000:51-66.  The content type is passed as `header`, an
\* option fetch does not know: the request carries no header
login(S, user) ==
  LET S1 == SessionStart(S, "login", NoFile)
  IN  IF user = "" THEN SessionCallback(S1, NoError, Null)
      ELSE SessionRequest(S1, "login", "POST", <<"user", "login">>,
                          S1.heap, NoHeaders)

\* data.csrf_token, part_000:77
TokenOf(data) ==
  IF data.t = "object" /\ "csrf_token" \in DOMAIN data.v
    THEN data.v["csrf_token"].v
  ELSE "undefined"

\* part_000:67-79: the cookie is stored when the response arrives, the
\* token when the decoder has called back without an error.  A decoder
\* that throws rejects a promise without a .catch; data.csrf_token of null
\* throws in the decoder's timer
loginResponse(S, setCookie, body) ==
  LET S1 == IF setCookie
              THEN [S EXCEPT !.heap.session = SetHeader(@, "Cookie", "SESS=1")]
              ELSE S
      o == processJSONResult(body)
  IN  IF o.threw THEN SessionLost(S1)
      ELSE IF o.error # NoError THEN SessionCallback(S1, o.error, Null)
      ELSE IF o.data.t = "null" THEN SessionLost(S1)
      ELSE SessionCallback(
             [S1 EXCEPT !.heap.session =
                SetHeader(@, "X-CSRF-Token", TokenOf(o.data))],
             NoError, Null)

\* get, part_000:88-98
get(S, path) ==
  LET A == SessionRef(S.heap)
  IN  SessionRequest(SessionStart(S, "get", NoFile), "get", "GET", path,
                     A.heap, A.heap[A.ref])

\* entityGet without includeReferences, part_000:108-118
sessionEntityGet(S) ==
  LET A == SessionRef(S.heap)
  IN  SessionRequest(SessionStart(S, "entityGet", NoFile), "entityGet", "GET",
                     GetUrl(NoTarget.type, NoTarget.id), A.heap, A.heap[A.ref])

\* entitySave of a payload without inline data, part_000:142-191
sessionEntitySave(S, id) ==
  LET A == JsonHeaders(S.heap)
  IN  SessionRequest(SessionStart(S, "entitySave", NoFile), "entitySave",
                     SaveMethod(id),
                     SaveUrl(entityConfiguration[NoTarget.type], id),
                     A.heap, A.heap[A.ref])

\* part_000:209, def.entityHandle.replace('%', id)
RemoveUrl(def, id) == Replace(def.entityHandle, "%", id)

\* an exception leaves the operation synchronously, to its caller
SessionThrown(S) == [S EXCEPT !.op.stage = "threw"]

\* entityRemove, part_000:202-216; def.entityHandle of line 209 throws
\* when the registry does not hold the type
entityRemove(S, entityType, id) ==
  LET A == JsonHeaders(S.heap)
      def == entityConfiguration[entityType]
      S1 == [SessionStart(S, "entityRemove", NoFile) EXCEPT
               !.op.target = [type |-> entityType, id |-> id]]
  IN  IF ~Registered(entityType) THEN SessionThrown(S1)
      ELSE SessionRequest(S1, "entityRemove", "DELETE", RemoveUrl(def, id),
                          A.heap, A.heap[A.ref])

\* 'file/upload/' + entityPath of part_000:289, for the entityPath
\* 'media/image/field_a'
UploadPath == <<"file", "upload", "media", "image", "field_a">>

\* fileUpload, part_000:273-293: the headers are built before the test of
\* file.content; the download of file.src carries no header
sessionFileUpload(S, file) ==
  LET A == UploadHeaders(S.heap, file)
      S1 == [S EXCEPT !.op.file = file]
  IN  IF file.content = "" /\ file.src # ""
        THEN SessionRequest(S1, "download", "GET", <<file.src>>,
                            A.heap, NoHeaders)
      ELSE SessionRequest(S1, "upload", "post", UploadPath,
                          A.heap, A.heap[A.ref])

\* loadRestExport with paginated: false, part_000:473-496
sessionLoadRestExport(S) ==
  LET A == SessionRef(S.heap)
  IN  SessionRequest(SessionStart(S, "loadRestExport", NoFile),
                     "loadRestExport", "GET", <<"rest", "export", "page=0">>,
                     A.heap, A.heap[A.ref])

\* the export of one page: options {paginated: false}
OnePage ==
  Iteratee([page |-> 0, endPage |-> EndPageOf([paginated |-> "false",
              startPage |-> Unset, endPage |-> Unset, each |-> FALSE], 0),
            notDone |-> TRUE, result |-> <<>>, fetched |-> <<>>,
            each |-> <<>>, cb |-> NoExportCb, pc |-> "idle"])

\* entityRemove, part_000:217-228: an empty body is a removal, any other
\* body goes to the decoder
Mut_RemoveResult_ignoreBody(outcome) ==
  IF outcome.arrived THEN [error |-> NoError, data |-> Null]
  ELSE ResponseResult(outcome)

RemoveResult(outcome) ==
  IF outcome.arrived /\ outcome.body = Garbage("")
    THEN [error |-> NoError, data |-> Null]
    ELSE ResponseResult(outcome)

\* what the continuation of a request hands to the operation's callback
SessionResult(r, outcome) ==
  CASE r.kind = "get" ->
         \* part_000:99-105
         IF outcome.arrived
           THEN [error |-> NoError, data |-> [t |-> "text", v |-> outcome.body]]
           ELSE [error |-> FetchError, data |-> Null]
    [] r.kind = "entityRemove" -> RemoveResult(outcome)
    [] r.kind = "loadRestExport" ->
         \* part_000:497-531
         LET X == IF ~outcome.arrived THEN ExportFinal(OnePage, FetchError)
                  ELSE IF ~JSONparse(outcome.body).ok
                    THEN ExportFinal(OnePage, SyntaxError)
                  ELSE PageHandler(OnePage, JSONparse(outcome.body).value,
                                   FALSE)
         IN  [error |-> X.cb.error, data |-> Arr(X.cb.list)]
    [] OTHER ->
         \* part_000:119-127, 192-197 and 294-299
         ResponseResult(outcome)

SessionDeliver(S, r, outcome) ==
  LET res == SessionResult(r, outcome)
      S1 == [S EXCEPT !.net = @ \ {r},
                      !.op.failed = @ \/ ~outcome.arrived,
                      !.op.answers = Append(@, outcome)]
  IN  SessionCallback(S1, res.error, res.data)

SessionOps ==
  {"get", "entityGet", "entitySave", "entityRemove", "fileUpload",
   "loadRestExport"}

Files ==
  {[filename |-> "a.png", content |-> c, src |-> s] :
     c \in {"", "bytes"}, s \in {"", "http://src/a.png"}}

\* the answer to a login: whether it carries Set-Cookie, and its body
LoginAnswer(setCookie, body) ==
  [arrived |-> TRUE, body |-> body, cookie |-> setCookie]

\* the entity types and identifiers entityRemove is called with
RemoveTypes == {"node", "media", "file"}

\* the bodies the server answers a login with
LoginBodies ==
  {Json(Obj("csrf_token" :> Str("tok"))),
   Json(Obj("message" :> Str("Forbidden"))),
   Json(Obj(EmptyFn)), Json(Null), Json(Bool(TRUE)), Garbage("<html>")}

\* the bodies the server answers any other request with
SessionBodies ==
  {Garbage(""), Garbage("<html>"), Json(Obj("message" :> Str("Forbidden"))),
   Json(Arr(<<Obj("nid" :> Num(1))>>)), Json(Obj("nid" :> Num(1)))}

\* a client as the constructor leaves it, with n operations already counted
SessionAt(n) ==
  /\ sHeap = NewHeap /\ sOp = NoOp /\ sNet = {} /\ sLog = <<>>
  /\ sCb = NoCb /\ sLeft = NoHeaders /\ sCalls = n

SessionIdle == SessionAt(0)

SessionUnused == sUser = "" /\ SessionIdle

InitSession == sUser \in {"", "admin"} /\ SessionIdle

\* the caller invokes login(callback); the caller is one thread and starts
\* an operation when no request is in flight
LoginCall ==
  /\ sNet = {} /\ sCalls < MaxCalls
  /\ InstallSession(login(Session, sUser))
  /\ sLeft' = sHeap'.session
  /\ sCalls' = sCalls + 1
  /\ UNCHANGED sUser

\* part_000:67-79
LoginRespond ==
  \E r \in sNet : \E setCookie \in BOOLEAN : \E body \in LoginBodies :
    /\ r.kind = "login"
    /\ InstallSession(loginResponse(
         [Session EXCEPT !.net = @ \ {r},
                         !.op.answers = Append(@, LoginAnswer(setCookie, body))],
         setCookie, body))
    /\ sLeft' = sHeap'.session
    /\ UNCHANGED <<sUser, sCalls>>

\* the login request rejects: part_000:57-79 has no .catch
LoginFail ==
  \E r \in sNet :
    /\ r.kind = "login"
    /\ InstallSession(SessionLost([Session EXCEPT
                                     !.net = @ \ {r},
                                     !.op.failed = TRUE,
                                     !.op.answers = Append(@, Failed)]))
    /\ sLeft' = sHeap'.session
    /\ UNCHANGED <<sUser, sCalls>>

\* the caller invokes one of the other operations
OpCall ==
  /\ sNet = {} /\ sCalls < MaxCalls
  /\ \E name \in SessionOps :
       CASE name = "get" -> InstallSession(get(Session, <<"node", "1">>))
         [] name = "entityGet" -> InstallSession(sessionEntityGet(Session))
         [] name = "entitySave" ->
              \E id \in 0..MaxId : InstallSession(sessionEntitySave(Session, id))
         [] name = "entityRemove" ->
              \E t \in RemoveTypes : \E id \in 1..MaxId :
                InstallSession(entityRemove(Session, t, id))
         [] name = "fileUpload" ->
              \E file \in Files :
                InstallSession(sessionFileUpload(
                  SessionStart(Session, "fileUpload", file), file))
         [] OTHER -> InstallSession(sessionLoadRestExport(Session))
  /\ sCalls' = sCalls + 1
  /\ UNCHANGED <<sUser, sLeft>>

\* a request of one of the other operations is answered
OpRespond ==
  \E r \in sNet : \E body \in SessionBodies :
    /\ r.kind \notin {"login", "download"}
    /\ InstallSession(SessionDeliver(Session, r, Arrived(body)))
    /\ UNCHANGED <<sUser, sLeft, sCalls>>

\* a request of one of the other operations rejects: the .catch of
\* part_000:103, 125, 194, 225, 296 and 525
OpFail ==
  \E r \in sNet :
    /\ r.kind \notin {"login", "download"}
    /\ InstallSession(SessionDeliver(Session, r, Failed))
    /\ UNCHANGED <<sUser, sLeft, sCalls>>

\* fetch(file.src) resolves: file.content = body and fileUpload runs again,
\* part_000:280-285
FileDownloaded ==
  \E r \in sNet :
    /\ r.kind = "download"
    /\ InstallSession(sessionFileUpload(
         [Session EXCEPT !.net = @ \ {r},
                         !.op.answers = Append(@, Arrived(Garbage("blob")))],
         [sOp.file EXCEPT !.content = "blob"]))
    /\ UNCHANGED <<sUser, sLeft, sCalls>>

\* fetch(file.src) rejects: part_000:280-285 has no .catch
FileDownloadFail ==
  \E r \in sNet :
    /\ r.kind = "download"
    /\ InstallSession(SessionLost([Session EXCEPT
                                     !.net = @ \ {r},
                                     !.op.failed = TRUE,
                                     !.op.answers = Append(@, Failed)]))
    /\ UNCHANGED <<sUser, sLeft, sCalls>>

InitDecode ==
  /\ dBody \in DecodeBodies /\ DecodeIdle /\ SaveIdle /\ ExportUnused
  /\ GetUnused /\ SessionUnused /\ oper = "processJSONResult"
NextDecode ==
  \/ DecodeCall /\ UNCHANGED <<saveVars, exportVars, getVars, sessionVars, oper>>
  \/ DecodeTimer /\ UNCHANGED <<saveVars, exportVars, getVars, sessionVars, oper>>
SpecDecode == InitDecode /\ [][NextDecode]_vars

DecodeUnused == dBody = Garbage("") /\ DecodeIdle

InitSaveSpec ==
  /\ InitSave /\ DecodeUnused /\ ExportUnused /\ GetUnused /\ SessionUnused
  /\ oper = "entitySave"
NextSave ==
  \/ SaveCall /\ UNCHANGED <<decodeVars, exportVars, getVars, sessionVars, oper>>
  \/ Respond /\ UNCHANGED <<decodeVars, exportVars, getVars, sessionVars, oper>>
  \/ TransportFail /\ UNCHANGED <<decodeVars, exportVars, getVars, sessionVars, oper>>
  \/ DownloadDone /\ UNCHANGED <<decodeVars, exportVars, getVars, sessionVars, oper>>
  \/ DownloadFail /\ UNCHANGED <<decodeVars, exportVars, getVars, sessionVars, oper>>
SpecSave == InitSaveSpec /\ [][NextSave]_vars

InitExport ==
  /\ xOpt \in ExportOptions /\ ExportIdle /\ DecodeUnused /\ SaveIdle
  /\ GetUnused /\ SessionUnused /\ oper = "loadRestExport"
NextExport ==
  \/ ExportCall /\ UNCHANGED <<decodeVars, saveVars, getVars, sessionVars, oper>>
  \/ PageArrives /\ UNCHANGED <<decodeVars, saveVars, getVars, sessionVars, oper>>
  \/ PageFails /\ UNCHANGED <<decodeVars, saveVars, getVars, sessionVars, oper>>
SpecExport == InitExport /\ [][NextExport]_vars

InitGetSpec ==
  /\ InitGet /\ DecodeUnused /\ SaveIdle /\ ExportUnused /\ SessionUnused
  /\ oper = "entityGet"
NextGet ==
  \/ GetCall /\ UNCHANGED <<decodeVars, saveVars, exportVars, sessionVars, oper>>
  \/ GetRespond /\ UNCHANGED <<decodeVars, saveVars, exportVars, sessionVars, oper>>
  \/ GetFail /\ UNCHANGED <<decodeVars, saveVars, exportVars, sessionVars, oper>>
SpecGet == InitGetSpec /\ [][NextGet]_vars

InitExportRefsSpec ==
  /\ InitExportRefs /\ DecodeUnused /\ SaveIdle /\ SessionUnused
  /\ oper = "includeReferences"
NextExportRefs ==
  \/ ExportCallRefs /\ UNCHANGED <<decodeVars, saveVars, sessionVars, oper>>
  \/ PageArrivesRefs /\ UNCHANGED <<decodeVars, saveVars, sessionVars, oper>>
  \/ PageFailsRefs /\ UNCHANGED <<decodeVars, saveVars, sessionVars, oper>>
  \/ ItemRefRespond /\ UNCHANGED <<decodeVars, saveVars, sessionVars, oper>>
  \/ ItemRefFail /\ UNCHANGED <<decodeVars, saveVars, sessionVars, oper>>
SpecExportRefs == InitExportRefsSpec /\ [][NextExportRefs]_vars

InitSessionSpec ==
  /\ InitSession /\ DecodeUnused /\ SaveIdle /\ ExportUnused /\ GetUnused
  /\ oper = "session"
NextSession ==
  \/ LoginCall /\ UNCHANGED <<decodeVars, saveVars, exportVars, getVars, oper>>
  \/ LoginRespond /\ UNCHANGED <<decodeVars, saveVars, exportVars, getVars, oper>>
  \/ LoginFail /\ UNCHANGED <<decodeVars, saveVars, exportVars, getVars, oper>>
  \/ OpCall /\ UNCHANGED <<decodeVars, saveVars, exportVars, getVars, oper>>
  \/ OpRespond /\ UNCHANGED <<decodeVars, saveVars, exportVars, getVars, oper>>
  \/ OpFail /\ UNCHANGED <<decodeVars, saveVars, exportVars, getVars, oper>>
  \/ FileDownloaded /\ UNCHANGED <<decodeVars, saveVars, exportVars, getVars, oper>>
  \/ FileDownloadFail
       /\ UNCHANGED <<decodeVars, saveVars, exportVars, getVars, oper>>
SpecSession == InitSessionSpec /\ [][NextSession]_vars

\* the caller invokes entityRemove with a name the registry does not hold
RemoveUnknownCall ==
  /\ sOp.stage = "idle"
  /\ \E id \in 1..MaxId :
       InstallSession(entityRemove(Session, UnknownType, id))
  /\ sCalls' = sCalls + 1
  /\ UNCHANGED <<sUser, sLeft>>

\* entitySave, entityGet and entityRemove called with an unregistered name
InitUnknown ==
  /\ SaveInputs({UnknownType})
  /\ gType = UnknownType /\ gId \in 1..MaxId /\ gOpt \in GetOptions
  /\ gNext = 1 /\ GetIdle
  /\ DecodeUnused /\ ExportUnused /\ SessionUnused
  /\ oper = "unregistered"
NextUnknown ==
  \/ SaveCall /\ UNCHANGED <<decodeVars, exportVars, getVars, sessionVars, oper>>
  \/ Respond /\ UNCHANGED <<decodeVars, exportVars, getVars, sessionVars, oper>>
  \/ TransportFail /\ UNCHANGED <<decodeVars, exportVars, getVars, sessionVars, oper>>
  \/ DownloadDone /\ UNCHANGED <<decodeVars, exportVars, getVars, sessionVars, oper>>
  \/ DownloadFail /\ UNCHANGED <<decodeVars, exportVars, getVars, sessionVars, oper>>
  \/ GetCall /\ UNCHANGED <<decodeVars, saveVars, exportVars, sessionVars, oper>>
  \/ RemoveUnknownCall
       /\ UNCHANGED <<decodeVars, saveVars, exportVars, getVars, oper>>
SpecUnknown == InitUnknown /\ [][NextUnknown]_vars

\* one call of one operation on a new client: the decoder, an entitySave
\* of a node, an entityGet of a node, a loadRestExport without and with
\* includeReferences, or login, get, entityRemove or fileUpload
InitCalls ==
  \/ InitDecode
  \/ InitSaveSpec /\ rootType = "node" /\ rootId = 0
  \/ InitExport
  \/ InitGetSpec /\ gType = "node"
  \/ InitExportRefsSpec /\ xOpt.each
  \/ /\ sUser \in {"", "admin"} /\ SessionAt(MaxCalls - 1)
     /\ DecodeUnused /\ SaveIdle /\ ExportUnused /\ GetUnused
     /\ oper = "session"
NextCalls ==
  \/ oper = "processJSONResult" /\ NextDecode
  \/ oper = "entitySave" /\ NextSave
  \/ oper = "loadRestExport" /\ NextExport
  \/ oper = "entityGet" /\ NextGet
  \/ oper = "includeReferences" /\ NextExportRefs
  \/ oper = "session" /\ NextSession
SpecCalls == InitCalls /\ [][NextCalls]_vars


(***************************************************************************)
(* What the claims read off a run.                                         *)
(***************************************************************************)
LogIdx == 1..Len(log)
IsReq(i, kind) == log[i].e = "req" /\ log[i].kind = kind
IsRes(i, kind) == log[i].e = "res" /\ log[i].kind = kind
Step(k, i) == [key |-> k, index |-> i]

\* the entity type a save of the payload at path p is called with
TypeAt(p) ==
  IF p = <<>> THEN rootType
  ELSE ItemAt(content0, Front(p), Last(p).key, Last(p).index).target_type

\* an item of the caller's payload that carries inline data for a child save
IsChildItem(v) == HasData(v) /\ v.target_type # "fileUpload"
\* an item of the caller's payload that is a pending file upload
IsUploadItem(v) == HasData(v) /\ v.target_type = "fileUpload"

\* a response body that is an entity carrying identifier n under field f
Returns(outcome, f, n) ==
  /\ outcome.arrived
  /\ outcome.body.json
  /\ outcome.body.value.t = "object"
  /\ f \in DOMAIN outcome.body.value.v
  /\ outcome.body.value.v[f] = Arr(<<Obj("value" :> Num(n))>>)

(***************************************************************************)
(* C1: for a payload in which no reference item carries inline data,       *)
(* entitySave issues exactly one HTTP request, the entity write of the     *)
(* top-level save (no upload, no download, no child save), and once that   *)
(* request is answered the callback has been called once with the decoded  *)
(* body unchanged: the parsed entity and no error, and otherwise no data.   *)
(***************************************************************************)
C1_OneWriteBodyUnchanged ==
  (InlineCount(content0) = 0 /\ DOMAIN frames # {}) =>
    /\ DOMAIN frames = {<<>>}
    /\ {i \in LogIdx : log[i].e = "req"} = {1}
    /\ IsReq(1, "write") /\ log[1].owner = <<>>
    /\ log[1].body = content0
    /\ cb.count <= 1
    /\ \A i \in LogIdx : log[i].e = "res" =>
         /\ cb.count = 1
         /\ IF /\ log[i].outcome.arrived
               /\ log[i].outcome.body.json
               /\ log[i].outcome.body.value.t \in {"object", "array"}
               /\ ~In("message", log[i].outcome.body.value)
              THEN cb.error = NoError /\ cb.data = log[i].outcome.body.value
              ELSE cb.error # NoError /\ cb.data = Null

C1_Witness ==
  /\ InlineCount(content0) = 0
  /\ Len(content0["field_a"]) >= 1
  /\ cb.count = 1 /\ cb.error = NoError /\ cb.data.t = "object"

(***************************************************************************)
(* C2: whenever the write of a payload is issued, every item of it that    *)
(* carries inline data for a normal entity type has had its child write    *)
(* issued (PATCH when the item had a target_id, POST otherwise) and        *)
(* answered before, and the body of the parent write carries, as that      *)
(* item's target_id, the identifier the child's answer holds under the     *)
(* identifier field the registry declares for the target type.             *)
(***************************************************************************)
C2_ChildSavedBeforeParentWrite ==
  \A w \in LogIdx : IsReq(w, "write") =>
    LET p == log[w].owner
        orig == PayloadAt(content0, p)
    IN  \A k \in FieldNames : \A i \in 1..Len(orig[k]) :
          IsChildItem(orig[k][i]) =>
            \E j \in 1..(w - 1) : \E j2 \in (j + 1)..(w - 1) :
              /\ IsReq(j, "write") /\ log[j].owner = p \o <<Step(k, i)>>
              /\ log[j].method =
                   (IF orig[k][i].target_id # 0 THEN "PATCH" ELSE "POST")
              /\ IsRes(j2, "write") /\ log[j2].owner = p \o <<Step(k, i)>>
              /\ Returns(log[j2].outcome,
                         entityConfiguration[orig[k][i].target_type].idField,
                         log[w].body[k][i].target_id)

C2_Witness ==
  /\ cb.count = 1 /\ cb.error = NoError
  /\ \E i \in 1..Len(content0["field_a"]) :
       /\ IsChildItem(content0["field_a"][i])
       /\ content0["field_a"][i].target_id = 0
  /\ \E i \in 1..Len(content0["field_b"]) :
       /\ IsChildItem(content0["field_b"][i])
       /\ content0["field_b"][i].target_id # 0

(***************************************************************************)
(* C3: whenever the write of a payload is issued, every pending file       *)
(* upload of it, in field F, has had an upload request issued to           *)
(* file/upload/{entityType}/{type field value}/{F} and answered before,    *)
(* and the body of the write carries, as that item's target_id, the fid    *)
(* of the upload's answer.                                                 *)
(***************************************************************************)
C3_UploadBeforeParentWrite ==
  \A w \in LogIdx : IsReq(w, "write") =>
    LET p == log[w].owner
        orig == PayloadAt(content0, p)
    IN  \A k \in FieldNames : \A i \in 1..Len(orig[k]) :
          IsUploadItem(orig[k][i]) =>
            \E j \in 1..(w - 1) : \E j2 \in (j + 1)..(w - 1) :
              /\ IsReq(j, "upload") /\ log[j].owner = p
              /\ log[j].key = k /\ log[j].index = i
              /\ log[j].url = <<"file", "upload", TypeAt(p),
                                orig["type"][1].target_id, k>>
              /\ IsRes(j2, "upload") /\ log[j2].owner = p
              /\ log[j2].key = k /\ log[j2].index = i
              /\ Returns(log[j2].outcome, "fid", log[w].body[k][i].target_id)

C3_Witness ==
  /\ cb.count = 1 /\ cb.error = NoError
  /\ \E i \in 1..Len(content0["field_a"]) :
       IsUploadItem(content0["field_a"][i])

(***************************************************************************)
(* C4 (the claim as stated): at no time are dependency resolutions of two  *)
(* different fields of the same payload in flight at once.                 *)
(***************************************************************************)
\* a request in flight that belongs to the resolution of field k of frame p
InFlight(p, k) ==
  \E r \in net :
    \/ r.owner = p /\ r.key = k
    \/ /\ Len(r.owner) > Len(p)
       /\ SubSeq(r.owner, 1, Len(p)) = p
       /\ r.owner[Len(p) + 1].key = k

C4_OneFieldAtATime ==
  \A p \in DOMAIN frames : \A k1, k2 \in FieldNames :
    (InFlight(p, k1) /\ InFlight(p, k2)) => k1 = k2

(***************************************************************************)
(* C5: within one field, a request that belongs to the resolution of item  *)
(* i is issued only after every earlier inline-data item of that field has *)
(* been resolved and holds, as target_id, the identifier it resolved to.   *)
(***************************************************************************)
\* every earlier inline-data item of field k of frame p is resolved before
\* log position j
EarlierResolved(p, k, i, j) ==
  \A i0 \in 1..(i - 1) :
    HasData(PayloadAt(content0, p)[k][i0]) =>
      \E d \in 1..(j - 1) :
        /\ log[d].e = "dep" /\ log[d].owner = p
        /\ log[d].key = k /\ log[d].index = i0
        /\ log[d].ok
        /\ ItemAt(content, p, k, i0).target_id = log[d].id
        /\ log[d].id # PayloadAt(content0, p)[k][i0].target_id

C5_ItemsInOrder ==
  \A j \in LogIdx : log[j].e = "req" =>
    /\ log[j].kind # "write" =>
         EarlierResolved(log[j].owner, log[j].key, log[j].index, j)
    /\ \A n \in 1..Len(log[j].owner) :
         EarlierResolved(SubSeq(log[j].owner, 1, n - 1),
                         log[j].owner[n].key, log[j].owner[n].index, j)

C5_Witness ==
  \E d1, d2 \in LogIdx :
    /\ d1 < d2
    /\ log[d1].e = "dep" /\ log[d2].e = "dep"
    /\ log[d1].ok /\ log[d2].ok
    /\ log[d1].owner = log[d2].owner /\ log[d1].key = log[d2].key
    /\ log[d1].index = 1 /\ log[d2].index = 2

(***************************************************************************)
(* C6 (the claim as stated): when a dependency resolution of a save fails, *)
(* the write of that save is never issued and the callback of that save    *)
(* has received that failure.                                              *)
(***************************************************************************)
\* the callback of the save of frame p has been called with error err
CalledBackWith(p, err) ==
  IF p = <<>> THEN cb.count >= 1 /\ cb.error = err
  ELSE \E d \in LogIdx :
         /\ log[d].e = "dep" /\ log[d].kind = "save"
         /\ log[d].owner = Front(p)
         /\ log[d].key = Last(p).key /\ log[d].index = Last(p).index
         /\ log[d].error = err

C6_EveryFailureReported ==
  \A d \in LogIdx : (log[d].e = "dep" /\ log[d].error # NoError) =>
    /\ ~\E w \in LogIdx : IsReq(w, "write") /\ log[w].owner = log[d].owner
    /\ CalledBackWith(log[d].owner, log[d].error)

(***************************************************************************)
(* C7 (the claim as stated): the write of every save is a PATCH to the     *)
(* type's update URL with the identifier substituted when an id was given, *)
(* and otherwise a POST to the creation URL the registry holds for the     *)
(* type.                                                                   *)
(***************************************************************************)
ExpectedUpdateUrl(t, id) ==
  CASE t = "node" -> <<"node", ToString(id)>>
    [] t = "media" -> <<"media", ToString(id), "edit">>
    [] t = "taxonomy" -> <<"taxonomy", "term", ToString(id)>>
    [] t = "file" -> <<"entity", "file", ToString(id)>>
    [] t = "paragraph" -> <<"entity", "paragraph", ToString(id)>>
    [] t = "user" -> <<"user", ToString(id)>>

ExpectedCreateUrl(t) ==
  CASE t = "node" -> <<"node">>
    [] t = "media" -> <<"entity", "media">>
    [] t = "taxonomy" -> <<"taxonomy", "term">>
    [] t = "paragraph" -> <<"entity", "paragraph">>
    [] t = "user" -> <<"entity", "user">>
    [] OTHER -> <<"undefined">>

ExpectedDecode(body) ==
  IF ~body.json THEN [error |-> Error(Str(body.raw)), data |-> Null]
  ELSE IF body.value.t = "object" /\ "message" \in DOMAIN body.value.v
    THEN [error |-> Error(body.value.v["message"]), data |-> Null]
  ELSE [error |-> NoError, data |-> body.value]

C8_DecoderDelivers ==
  /\ dPc # "threw"
  /\ dPc = "delivered" =>
       /\ dCb.count = 1
       /\ dCb.error = ExpectedDecode(dBody).error
       /\ dCb.data = ExpectedDecode(dBody).data

(***************************************************************************)
(* C9: loadRestExport with no endPage and paginated not false fetches the  *)
(* pages startPage, startPage + 1, ... in order and stops exactly at the   *)
(* first fetched page with zero items: no page is fetched after it, the    *)
(* callback is then called once without error with the concatenation, in   *)
(* page order, of the pages fetched before it, and the export completes    *)
(* without error at no other point.  Concatenation is that of              *)
(* result.concat: the items of a page that is a list, and a page that is   *)
(* no list as one element.                                                 *)
(***************************************************************************)
IsEmptyPage(o) ==
  /\ o.arrived /\ o.body.json
  /\ o.body.value.t = "array" /\ Len(o.body.value.v) = 0

RECURSIVE ConcatPages(_)
ConcatPages(pages) ==
  IF pages = <<>> THEN <<>>
  ELSE LET o == pages[Len(pages)]
           before == ConcatPages(SubSeq(pages, 1, Len(pages) - 1))
       IN  IF ~(o.arrived /\ o.body.json) THEN before
           ELSE IF o.body.value.t = "array" THEN before \o o.body.value.v
           ELSE before \o <<o.body.value>>

C9_StopsAtFirstEmptyPage ==
  (xOpt.endPage = Unset /\ xOpt.paginated # "false") =>
    /\ \A i \in 1..Len(xFetched) :
         xFetched[i] = (IF xOpt.startPage = Unset THEN 0 ELSE xOpt.startPage)
                         + (i - 1)
    /\ \A i \in 1..Len(xPages) : IsEmptyPage(xPages[i]) =>
         /\ i = Len(xFetched)
         /\ xPc = "done" /\ xCb.count = 1 /\ xCb.error = NoError
         /\ xCb.list = ConcatPages(SubSeq(xPages, 1, i - 1))
    /\ (xCb.count >= 1 /\ xCb.error = NoError) =>
         /\ Len(xPages) >= 1
         /\ IsEmptyPage(xPages[Len(xPages)])

C9_Witness ==
  /\ xOpt.endPage = Unset /\ xOpt.paginated # "false"
  /\ xPc = "done" /\ xCb.count = 1 /\ xCb.error = NoError
  /\ Len(xPages) = 3 /\ IsEmptyPage(xPages[3])
  /\ Len(xCb.list) >= 3
  /\ \A i \in 1..Len(xCb.list) : xCb.list[i].t = "object"

(***************************************************************************)
(* C10: loadRestExport with paginated = false issues exactly one page      *)
(* fetch, of page startPage (0 when none is given), whatever that page     *)
(* contains and whatever startPage and endPage are; once that fetch is     *)
(* answered the export is complete.                                        *)
(***************************************************************************)
C10_OneFetchWhenNotPaginated ==
  xOpt.paginated = "false" =>
    /\ Len(xFetched) <= 1
    /\ xPc # "idle" =>
         xFetched = <<IF xOpt.startPage = Unset THEN 0 ELSE xOpt.startPage>>
    /\ Len(xPages) = 1 => xPc = "done" /\ xCb.count = 1

C10_Witness ==
  /\ xOpt.paginated = "false"
  /\ xOpt.startPage = 1 /\ xOpt.endPage = 2
  /\ xPc = "done" /\ xCb.count = 1 /\ xCb.error = NoError
  /\ xFetched = <<1>>
  /\ Len(xCb.list) >= 2

(***************************************************************************)
(* C11 (the claim as stated): for every startPage s >= 0 and every endPage *)
(* n >= s, n = 0 included, loadRestExport fetches no page numbered greater *)
(* than n, and once page n has been answered the export is complete.       *)
(***************************************************************************)
StartGiven == IF xOpt.startPage = Unset THEN 0 ELSE xOpt.startPage

C11_EndPageInclusive ==
  (xOpt.endPage # Unset /\ StartGiven <= xOpt.endPage) =>
    /\ \A i \in 1..Len(xFetched) : xFetched[i] <= xOpt.endPage
    /\ \A i \in 1..Len(xPages) :
         xFetched[i] = xOpt.endPage => xPc = "done" /\ xCb.count = 1

(***************************************************************************)
(* C12 (the claim as stated): over a whole loadRestExport run options.each *)
(* is called with the indices 0, 1, 2, ... in that order, without repeats  *)
(* or gaps, once for every item of the fetched pages, the items in page    *)
(* order and then in-page order.                                           *)
(***************************************************************************)
\* the items of the pages answered with a list, in page order
RECURSIVE ListItems(_)
ListItems(pages) ==
  IF pages = <<>> THEN <<>>
  ELSE LET o == pages[Len(pages)]
           before == ListItems(SubSeq(pages, 1, Len(pages) - 1))
       IN  IF o.arrived /\ o.body.json /\ o.body.value.t = "array"
             THEN before \o o.body.value.v
             ELSE before

C12_EachIndices ==
  xOpt.each =>
    /\ \A i \in 1..Len(xEach) :
         /\ xEach[i].index = Num(i - 1)
         /\ i <= Len(ListItems(xPages))
         /\ xEach[i].item = ListItems(xPages)[i]
    /\ (xPc = "done" /\ xCb.error = NoError) =>
         Len(xEach) = Len(ListItems(xPages))

(***************************************************************************)
(* C14: when a page fetch of loadRestExport fails (the transport fails or  *)
(* the body does not parse), no further page is fetched and the callback   *)
(* is called once with that error and with the list accumulated from the   *)
(* pages answered before, which is a prefix of what the export would have  *)
(* returned without the failure.                                           *)
(***************************************************************************)
PageFailure(o) == ~o.arrived \/ ~o.body.json

C14_FailureReturnsPrefix ==
  \A i \in 1..Len(xPages) : PageFailure(xPages[i]) =>
    /\ i = Len(xPages) /\ i = Len(xFetched)
    /\ xPc = "done" /\ xCb.count = 1
    /\ xCb.error = (IF xPages[i].arrived THEN SyntaxError ELSE FetchError)
    /\ xCb.list = ConcatPages(SubSeq(xPages, 1, i - 1))

C14_Witness ==
  /\ Len(xPages) = 3 /\ PageFailure(xPages[3])
  /\ xPc = "done" /\ xCb.count = 1 /\ xCb.error = FetchError
  /\ Len(xCb.list) >= 3
  /\ xCb.list = ListItems(xPages)

(***************************************************************************)
(* C15 (the claim as stated): when the body of a fetched page is an error  *)
(* envelope (an object with a message field), the export ends with an      *)
(* error carrying that message, no further page is fetched, and the        *)
(* envelope is neither appended to the results nor passed to options.each. *)
(***************************************************************************)
IsEnvelope(o) ==
  /\ o.arrived /\ o.body.json
  /\ o.body.value.t = "object" /\ "message" \in DOMAIN o.body.value.v

C15_EnvelopeAborts ==
  \A i \in 1..Len(xPages) : IsEnvelope(xPages[i]) =>
    /\ i = Len(xFetched)
    /\ xPc = "done" /\ xCb.count = 1
    /\ xCb.error = Error(xPages[i].body.value.v["message"])
    /\ \A j \in 1..Len(result) : result[j] # xPages[i].body.value
    /\ \A j \in 1..Len(xEach) :
         xEach[j].item # xPages[i].body.value.v["message"]

(***************************************************************************)
(* What the claims about entityGet read off a run.                         *)
(***************************************************************************)
GLogIdx == 1..Len(gLog)
RefPath(k, i) == <<[key |-> k, index |-> i]>>

\* the read of path has been answered, and with what
Answered(path) == \E j \in GLogIdx : gLog[j].e = "res" /\ gLog[j].path = path
AnswerOf(path) ==
  gLog[CHOOSE j \in GLogIdx : gLog[j].e = "res" /\ gLog[j].path = path].outcome

\* an answer that is an entity: it arrived, parses, and is no error envelope
IsEntityAnswer(o) ==
  /\ o.arrived /\ o.body.json
  /\ o.body.value.t = "object" /\ "message" \notin DOMAIN o.body.value.v

\* the fields includeReferences names that the entity holds as lists
NamedFields(ent) ==
  {k \in DOMAIN ent.v : /\ ent.v[k].t = "array"
                        /\ gOpt.given
                        /\ \E n \in 1..Len(gOpt.refs) : gOpt.refs[n] = k}

(***************************************************************************)
(* C16: for entityGet with includeReferences, in whatever order the reads  *)
(* of the references are answered, the entity answered for the item at     *)
(* position i of a named field is attached as data to exactly that item,   *)
(* nothing else of the loaded entity changes (fields, item order and item  *)
(* contents stay), and the callback is called with success only when every *)
(* read of every named field has been answered with an entity and          *)
(* attached.                                                               *)
(***************************************************************************)
C16_AttachedToItsItem ==
  (<<>> \in DOMAIN gFrames) =>
    LET orig == AnswerOf(<<>>).body.value
        cur == gFrames[<<>>].result
    IN  /\ DOMAIN cur.v = DOMAIN orig.v
        /\ \A k \in DOMAIN orig.v :
             IF orig.v[k].t # "array" THEN cur.v[k] = orig.v[k]
             ELSE /\ cur.v[k].t = "array"
                  /\ Len(cur.v[k].v) = Len(orig.v[k].v)
                  /\ \A i \in 1..Len(orig.v[k].v) :
                       IF /\ k \in NamedFields(orig)
                          /\ Answered(RefPath(k, i))
                          /\ IsEntityAnswer(AnswerOf(RefPath(k, i)))
                         THEN cur.v[k].v[i] =
                                Obj(("data" :>
                                       AnswerOf(RefPath(k, i)).body.value)
                                    @@ orig.v[k].v[i].v)
                         ELSE cur.v[k].v[i] = orig.v[k].v[i]
        /\ (gCb.count >= 1 /\ gCb.error = NoError) =>
             /\ gCb.count = 1 /\ gCb.data = cur /\ gNet = {}
             /\ \A k \in NamedFields(orig) : \A i \in 1..Len(orig.v[k].v) :
                  /\ Answered(RefPath(k, i))
                  /\ IsEntityAnswer(AnswerOf(RefPath(k, i)))

\* both references of field_a attached, the second answered first
C16_Witness ==
  /\ gCb.count = 1 /\ gCb.error = NoError
  /\ <<>> \in DOMAIN gFrames
  /\ Len(gFrames[<<>>].result.v["field_a"].v) = 2
  /\ \A i \in 1..2 : "data" \in DOMAIN gFrames[<<>>].result.v["field_a"].v[i].v
  /\ gFrames[<<>>].result.v["field_a"].v[1].v["target_type"]
       # gFrames[<<>>].result.v["field_a"].v[2].v["target_type"]
  /\ \E j1, j2 \in GLogIdx :
       /\ j2 < j1
       /\ gLog[j1].e = "res" /\ gLog[j1].path = RefPath("field_a", 1)
       /\ gLog[j2].e = "res" /\ gLog[j2].path = RefPath("field_a", 2)

(***************************************************************************)
(* C17 (the claim as stated): when one of the concurrent reference reads   *)
(* of a resolution fails, the callback is called once, with that first     *)
(* error, and the remaining reads are aborted: after the failure has been  *)
(* reported no read attaches data to the payload.                          *)
(***************************************************************************)
C17_FirstFailureAborts ==
  /\ gCb.count <= 1
  /\ \A j \in GLogIdx : (gLog[j].e = "cb" /\ gLog[j].error # NoError) =>
       /\ gCb.error = gLog[j].error
       /\ \A j2 \in GLogIdx : j2 > j => gLog[j2].e # "attach"

(***************************************************************************)
(* C18 (the claim as stated): every referenced entity that entityGet with  *)
(* includeReferences loads and attaches has its own reference items under  *)
(* the named fields loaded and attached in turn.                           *)
(***************************************************************************)
C18_RecursiveLoad ==
  (gCb.count >= 1 /\ gCb.error = NoError) =>
    LET ent == gCb.data
    IN  \A k \in NamedFields(ent) : \A i \in 1..Len(ent.v[k].v) :
          LET child == ent.v[k].v[i].v["data"]
          IN  \A k2 \in NamedFields(child) : \A i2 \in 1..Len(child.v[k2].v) :
                "data" \in DOMAIN child.v[k2].v[i2].v

(***************************************************************************)
(* C18 (amended): reference resolution on read is one level deep: the      *)
(* only reads entityGet issues are its own and one per reference item of   *)
(* the named fields of the entity it loaded; the entity attached to an     *)
(* item is the answer of that read as it came, its own reference items are *)
(* not loaded.                                                             *)
(***************************************************************************)
C18_OneLevelLoad ==
  /\ \A j \in GLogIdx : gLog[j].e = "req" => Len(gLog[j].path) <= 1
  /\ \A r \in gNet : Len(r.path) <= 1
  /\ (<<>> \in DOMAIN gFrames) =>
       LET ent == gFrames[<<>>].result
       IN  \A k \in NamedFields(ent) : \A i \in 1..Len(ent.v[k].v) :
             "data" \in DOMAIN ent.v[k].v[i].v =>
               /\ ent.v[k].v[i].v["data"] = AnswerOf(RefPath(k, i)).body.value
               /\ \A k2 \in NamedFields(ent.v[k].v[i].v["data"]) :
                    \A i2 \in 1..Len(ent.v[k].v[i].v["data"].v[k2].v) :
                      "data" \notin
                        DOMAIN ent.v[k].v[i].v["data"].v[k2].v[i2].v

\* a loaded reference that itself holds a reference under a named field
C18_Witness ==
  /\ gCb.count = 1 /\ gCb.error = NoError
  /\ "field_a" \in NamedFields(gCb.data)
  /\ Len(gCb.data.v["field_a"].v) >= 1
  /\ Len(gCb.data.v["field_a"].v[1].v["data"].v["field_a"].v) = 1

(***************************************************************************)
(* C13: in loadRestExport with includeReferences the items of a page are   *)
(* processed one at a time: options.each is called for an item only after  *)
(* every reference item under its named fields has been read and the       *)
(* entity read attached, and no reference of an item is read before the    *)
(* callback of the item before it has returned.                            *)
(***************************************************************************)
\* the position in gLog of the load the event at j belongs to
LoadBefore(j) ==
  CHOOSE l \in 1..j : /\ gLog[l].e = "load"
                      /\ \A l2 \in (l + 1)..j : gLog[l2].e # "load"

\* the item of a load as the server sent it
ServedItem(l) == PageItem(xPages[gLog[l].page].body.value, gLog[l].pos)

C13_ItemsOneAtATime ==
  /\ \A j \in 1..Len(xEach) : xEach[j].item.t = "object" =>
       \A k \in NamedFields(xEach[j].item) :
         \A i \in 1..Len(xEach[j].item.v[k].v) :
           /\ "data" \in DOMAIN xEach[j].item.v[k].v[i].v
           /\ \E a \in GLogIdx :
                /\ gLog[a].e = "res" /\ gLog[a].path = RefPath(k, i)
                /\ IsEntityAnswer(gLog[a].outcome)
                /\ gLog[a].outcome.body.value = xEach[j].item.v[k].v[i].v["data"]
  /\ \A j \in GLogIdx : gLog[j].e = "each" =>
       LET l == LoadBefore(j)
           it == ServedItem(l)
       IN  /\ gLog[l].pos = gLog[j].pos /\ gLog[l].page = gLog[j].page
           /\ it.t = "object" =>
                \A k \in NamedFields(it) : \A i \in 1..Len(it.v[k].v) :
                  \E q \in (l + 1)..(j - 1) : \E a \in (q + 1)..(j - 1) :
                    \E t \in (a + 1)..(j - 1) :
                      /\ gLog[q].e = "req" /\ gLog[q].path = RefPath(k, i)
                      /\ gLog[a].e = "res" /\ gLog[a].path = RefPath(k, i)
                      /\ IsEntityAnswer(gLog[a].outcome)
                      /\ gLog[t].e = "attach" /\ gLog[t].key = k
                      /\ gLog[t].index = i
  /\ \A q \in GLogIdx : gLog[q].e = "req" =>
       /\ \E l \in 1..q : gLog[l].e = "load"
       /\ \A j \in LoadBefore(q)..q : gLog[j].e # "each"
  /\ \A l \in GLogIdx : gLog[l].e = "load" =>
       \A l0 \in 1..(l - 1) : gLog[l0].e = "load" =>
         \E j \in (l0 + 1)..(l - 1) :
           /\ gLog[j].e = "each"
           /\ gLog[j].pos = gLog[l0].pos /\ gLog[j].page = gLog[l0].page

\* two items of one page: the first with two references, answered in
\* reverse order, the second with one
C13_Witness ==
  /\ xPc = "done" /\ xCb.error = NoError
  /\ Len(xEach) = 2
  /\ xEach[1].item.t = "object" /\ xEach[2].item.t = "object"
  /\ Len(xEach[1].item.v["field_a"].v) = 2
  /\ Len(xEach[2].item.v["field_a"].v) = 1
  /\ \A i \in 1..2 : "data" \in DOMAIN xEach[1].item.v["field_a"].v[i].v
  /\ "data" \in DOMAIN xEach[2].item.v["field_a"].v[1].v
  /\ xCb.list = <<xEach[1].item, xEach[2].item>>
  /\ \E a1, a2 \in GLogIdx :
       /\ a2 < a1
       /\ gLog[a1].e = "res" /\ gLog[a1].path = RefPath("field_a", 1)
       /\ gLog[a2].e = "res" /\ gLog[a2].path = RefPath("field_a", 2)
       /\ \A l \in 1..a1 : gLog[l].e = "load" => gLog[l].pos = 1

(***************************************************************************)
(* The session: what the claims read off a run of SpecSession.             *)
(***************************************************************************)
SLogIdx == 1..Len(sLog)
SessionKeys == {"Cookie", "X-CSRF-Token"}
RequestOnly == {"Content-Type", "Content-Disposition"}

\* C19: the session headers are written only by login.  After any sequence
\* of get, entityGet, entitySave, entityRemove, fileUpload and
\* loadRestExport calls they are exactly what the last step of login left,
\* and Content-Type and Content-Disposition, which those operations add to
\* their own requests, are never among them.
C19_SessionWrittenOnlyByLogin ==
  /\ sessionHeaders = sLeft
  /\ DOMAIN sessionHeaders \subseteq SessionKeys
  /\ DOMAIN sessionHeaders \cap RequestOnly = {}

\* a login that stored a cookie and a token, then an upload and an entity
\* write that carried the session and their own headers, both completed
C19_Witness ==
  /\ DOMAIN sessionHeaders = SessionKeys
  /\ sNet = {} /\ sOp.stage = "done" /\ sOp.name = "entitySave"
  /\ \E i, j \in SLogIdx :
       /\ i < j
       /\ sLog[i].kind = "upload"
       /\ DOMAIN sLog[i].headers = SessionKeys \cup RequestOnly
       /\ sLog[j].kind = "entitySave"
       /\ DOMAIN sLog[j].headers = SessionKeys \cup {"Content-Type"}
       /\ sLog[j].headers["Content-Type"] = "application/json"

\* C20: every top-level operation invokes its completion callback once
\* each request it issued has returned or failed, and a transport failure
\* reaches the callback as an error.  A run has no step between the last
\* answer and the callback, so an operation that was entered and has no
\* request in flight has called back.
C20_CallbackReached ==
  (sOp.name # "none" /\ sNet = {}) =>
    /\ sCb.count >= 1
    /\ sOp.failed => sCb.error # NoError

\* the requests the operation entered last has issued
OpRequests == SubSeq(sLog, sOp.first + 1, Len(sLog))

\* a body that parses to an object with a message field
HasMessage(body) ==
  body.json /\ body.value.t = "object" /\ "message" \in DOMAIN body.value.v

\* C21: entityRemove issues one request, a DELETE to the entity's URL.  An
\* empty response body is reported as success (no error); a non-empty body
\* goes through the decoder, so a body with a message field is reported as
\* the error of that message and never as a successful removal.
C21_RemoveReports ==
  sOp.name = "entityRemove" =>
    /\ Len(OpRequests) = 1
    /\ OpRequests[1].method = "DELETE"
    /\ OpRequests[1].url = ExpectedUpdateUrl(sOp.target.type, sOp.target.id)
    /\ (sOp.answers # <<>> /\ sOp.answers[1].arrived) =>
         LET body == sOp.answers[1].body
         IN  /\ sCb.count = 1
             /\ body = Garbage("") => sCb.error = NoError
             /\ HasMessage(body) =>
                  sCb.error = Error(body.value.v["message"])
             /\ (body # Garbage("") /\ ~HasMessage(body)) =>
                  /\ sCb.error = ExpectedDecode(body).error
                  /\ sCb.data = ExpectedDecode(body).data

\* a removal of a media entity answered with an error envelope, after one
\* of a node answered with an empty body
C21_Witness ==
  /\ sOp.name = "entityRemove" /\ sOp.target.type = "media"
  /\ sOp.stage = "done" /\ sOp.answers # <<>> /\ sOp.answers[1].arrived
  /\ HasMessage(sOp.answers[1].body)
  /\ sCb.error # NoError
  /\ sOp.first = 1 /\ sLog[1].method = "DELETE"
  /\ sLog[1].url = <<"node", "1">>

\* the child saves nested in the inline data of the payload at path p of
\* the caller's payload, at every depth
RECURSIVE NestedSaves(_)
NestedSaves(p) ==
  LET orig == PayloadAt(content0, p)
      direct == UNION {{p \o <<Step(k, i)>> :
                          i \in {j \in 1..Len(orig[k]) :
                                   IsChildItem(orig[k][j])}} :
                       k \in FieldNames}
  IN  direct \cup UNION {NestedSaves(q) : q \in direct}

(***************************************************************************)
(* C22: entity writes are issued in post-order.  The write of an entity is *)
(* issued only after the write of every entity nested in its inline data,  *)
(* at every depth, has been issued and answered, and no request of the     *)
(* save is issued after the top-level write.                               *)
(***************************************************************************)
C22_WritesInPostOrder ==
  /\ \A w \in LogIdx : IsReq(w, "write") =>
       \A q \in NestedSaves(log[w].owner) :
         \E j \in 1..(w - 1) : \E j2 \in (j + 1)..(w - 1) :
           /\ IsReq(j, "write") /\ log[j].owner = q
           /\ IsRes(j2, "write") /\ log[j2].owner = q
  /\ \A w \in LogIdx : (IsReq(w, "write") /\ log[w].owner = <<>>) =>
       \A j \in (w + 1)..Len(log) : log[j].e # "req"

\* a save whose payload nests a child in a child, completed without error
C22_Witness ==
  /\ cb.count = 1 /\ cb.error = NoError
  /\ \E q \in NestedSaves(<<>>) : Len(q) = 2
  /\ \E w \in LogIdx : IsReq(w, "write") /\ log[w].owner = <<>>

(***************************************************************************)
(* C23: once entitySave has called its callback with an error it issues no *)
(* further request: no upload, no download, no child write and no entity   *)
(* write follows the failure callback.                                     *)
(***************************************************************************)
C23_NoRequestAfterFailure ==
  \A c \in LogIdx :
    (log[c].e = "cb" /\ log[c].owner = <<>> /\ log[c].error # NoError) =>
      \A j \in (c + 1)..Len(log) : log[j].e # "req"

\* the log positions at which the caller's callback received an error
FailureCbs ==
  {c \in LogIdx : log[c].e = "cb" /\ log[c].owner = <<>>
                    /\ log[c].error # NoError}

(***************************************************************************)
(* C24: a failed entitySave does not roll back.  After the save has        *)
(* reported an error, every reference item whose upload or child save was  *)
(* resolved before the failure holds, in the caller's payload, the         *)
(* identifier it was rewritten to.                                         *)
(***************************************************************************)
C24_NoRollback ==
  \A c \in FailureCbs : \A d \in 1..(c - 1) :
    (log[d].e = "dep" /\ log[d].ok) =>
      ItemAt(content, log[d].owner, log[d].key, log[d].index).target_id
        = log[d].id

\* a save that failed after one of its items had been rewritten to an
\* identifier the item did not hold before
C24_Witness ==
  \E c \in FailureCbs : \E d \in 1..(c - 1) :
    /\ log[d].e = "dep" /\ log[d].ok
    /\ log[d].id # ItemAt(content0, log[d].owner, log[d].key,
                           log[d].index).target_id
    /\ cb.count = 1 /\ cb.error # NoError /\ net = {}

\* a payload with what entitySave may rewrite blanked out: the target_id of
\* every reference item that carries inline data, at every depth
RECURSIVE Blank(_)
BlankItem(v) ==
  IF ~HasData(v) THEN v
  ELSE [v EXCEPT !.target_id = 0,
                 !.data = IF v.target_type = "fileUpload" THEN @
                          ELSE Blank(@)]
Blank(p) == [k \in DOMAIN p |-> [i \in 1..Len(p[k]) |-> BlankItem(p[k][i])]]

\* the same, and the content of a file that names a src blanked out too
RECURSIVE BlankSrc(_)
BlankFile(file) ==
  IF "src" \in DOMAIN file
    THEN [f \in DOMAIN file \ {"content"} |-> file[f]]
    ELSE file
BlankSrcItem(v) ==
  IF ~HasData(v) THEN v
  ELSE [v EXCEPT !.target_id = 0,
                 !.data = IF v.target_type = "fileUpload" THEN BlankFile(@)
                          ELSE BlankSrc(@)]
BlankSrc(p) ==
  [k \in DOMAIN p |-> [i \in 1..Len(p[k]) |-> BlankSrcItem(p[k][i])]]

(***************************************************************************)
(* C25: entitySave changes nothing in the caller's payload except the      *)
(* target_id of the reference items that carry inline data: the set of     *)
(* fields, the scalar values, the order of the items, the items without    *)
(* inline data and the inline data itself are as the caller passed them.   *)
(***************************************************************************)
C25_OnlyTargetIdChanges == Blank(content) = Blank(content0)

(***************************************************************************)
(* C25 as the code has it: entitySave changes nothing in the caller's      *)
(* payload except the target_id of the reference items that carry inline   *)
(* data and, in the file of a pending upload that names a src and has no   *)
(* content, the content the download of src stored there.                  *)
(***************************************************************************)
C25_OnlyTargetIdAndDownloadChange == BlankSrc(content) = BlankSrc(content0)

\* a completed save of a payload holding an item without inline data and an
\* upload from src: the one is as it was, the other rewritten and filled
C25_Witness ==
  /\ cb.count = 1 /\ cb.error = NoError /\ net = {}
  /\ Len(content0["field_a"]) = 2
  /\ ~HasData(content0["field_a"][1])
  /\ content["field_a"][1] = content0["field_a"][1]
  /\ IsUploadItem(content0["field_a"][2])
  /\ "src" \in DOMAIN content0["field_a"][2].data
  /\ "content" \notin DOMAIN content0["field_a"][2].data
  /\ "content" \in DOMAIN content["field_a"][2].data
  /\ content["field_a"][2].target_id # content0["field_a"][2].target_id

\* the entries of an answered page: the items of a list, the values of an
\* object
EntriesOf(o) ==
  IF ~(o.arrived /\ o.body.json) THEN 0
  ELSE IF o.body.value.t = "array" THEN Len(o.body.value.v)
  ELSE IF o.body.value.t = "object" THEN Cardinality(DOMAIN o.body.value.v)
  ELSE 0

RECURSIVE EntriesServed(_)
EntriesServed(pages) ==
  IF pages = <<>> THEN 0
  ELSE EntriesOf(pages[Len(pages)])
         + EntriesServed(SubSeq(pages, 1, Len(pages) - 1))

\* every reference item under field_a of an emitted item holds its entity
Resolved(item) ==
  (item.t = "object" /\ "field_a" \in DOMAIN item.v) =>
    \A i \in 1..Len(item.v["field_a"].v) :
      "data" \in DOMAIN item.v["field_a"].v[i].v

(***************************************************************************)
(* C26: loadRestExport fetches pages one at a time, with consecutive page  *)
(* numbers from startPage on, so none twice.  While the fetch of a page is *)
(* in flight every earlier page has been answered, no reference read is in *)
(* flight, and every item of the earlier pages has its references          *)
(* attached and has been passed to options.each; while items are loaded no *)
(* page fetch is in flight.                                                *)
(***************************************************************************)
C26_PagesOneAtATime ==
  /\ \A i \in 1..Len(xFetched) : xFetched[i] = StartGiven + (i - 1)
  /\ Len(xFetched) - Len(xPages) \in {0, 1}
  /\ xPc = "loading" => Len(xFetched) = Len(xPages)
  /\ Len(xFetched) > Len(xPages) =>
       /\ gNet = {}
       /\ \A i \in 1..Len(result) : Resolved(result[i])
       /\ xOpt.each =>
            /\ Len(xEach) = EntriesServed(xPages)
            /\ \A i \in 1..Len(xEach) : Resolved(xEach[i].item)

\* the fetch of page 2 in flight after page 1, the start page, served two
\* items, the first with two references, and both were emitted
C26_Witness ==
  /\ xFetched = <<1, 2>> /\ Len(xPages) = 1 /\ xPc = "fetching"
  /\ Len(xEach) = 2
  /\ xEach[1].item.t = "object"
  /\ Len(xEach[1].item.v["field_a"].v) = 2
  /\ Resolved(xEach[1].item)

(***************************************************************************)
(* Unregistered entity types: what the claims read off a run of            *)
(* SpecUnknown.                                                            *)
(***************************************************************************)
\* C27: entityGet, entitySave or entityRemove called with an entity-type
\* name that is not in the registry issues no HTTP request at all: no
\* upload, no download, no child save and no write is ever requested, also
\* when the payload carries inline data.
C27_UnknownTypeNoRequest ==
  /\ \A i \in 1..Len(log) : log[i].e # "req"
  /\ \A i \in 1..Len(gLog) : gLog[i].e # "req"
  /\ sLog = <<>>
  /\ net = {} /\ gNet = {} /\ sNet = {}

(***************************************************************************)
(* The per-item callback and the final list: what the claims read off a    *)
(* run of SpecExportRefs.                                                  *)
(***************************************************************************)
\* the list given to the export's callback holds the item of an
\* options.each call at the index of that call
InFinalList(call) ==
  /\ call.index.t = "number"
  /\ call.index.v + 1 \in 1..Len(xCb.list)
  /\ xCb.list[call.index.v + 1] = call.item

\* C28: every item loadRestExport has passed to options.each is contained
\* in the list finally given to the export's callback, at the index
\* options.each was given, both when the export succeeds and when it ends
\* with an error.
C28_EachItemsInFinalList ==
  xCb.count > 0 => \A i \in 1..Len(xEach) : InFinalList(xEach[i])

(***************************************************************************)
(* Completion callbacks: what the claims read off a run of SpecCalls.      *)
(***************************************************************************)
\* C29: no operation invokes its completion callback more than once per
\* call, on any interleaving of response arrivals, successes and failures:
\* the decoder, login, get, entityGet with concurrent reference reads (the
\* load of each item of an export included), entitySave with several
\* fields carrying inline data, entityRemove, fileUpload and
\* loadRestExport.
C29_CallbackAtMostOnce ==
  /\ dCb.count <= 1
  /\ cb.count <= 1
  /\ gCb.count <= 1
  /\ xCb.count <= 1
  /\ sCb.count <= 1

\* an entitySave whose two fields both carried inline data and both failed
\* has called back once
C29_Witness ==
  /\ oper = "entitySave" /\ cb.count = 1 /\ <<>> \in DOMAIN frames
  /\ frames[<<>>].series["field_a"].st = "failed"
  /\ frames[<<>>].series["field_b"].st = "failed"

\* C30: login captures the session only on success.  After the first login
\* of a client with a user has called back: if it reported an error the
\* session headers are still empty (no cookie is stored without a CSRF
\* token), and if it reported success the token from csrf_token is stored,
\* and so is the cookie when the response set one.
C30_LoginStoresOnlyOnSuccess ==
  (sOp.name = "login" /\ sOp.stage = "done" /\ sCalls = 1 /\ sUser # "") =>
    IF sCb.error # NoError
      THEN sessionHeaders = NoHeaders
      ELSE /\ "X-CSRF-Token" \in DOMAIN sessionHeaders
           /\ sessionHeaders["X-CSRF-Token"] =
                TokenOf(processJSONResult(sOp.answers[1].body).data)
           /\ sOp.answers[1].cookie <=> "Cookie" \in DOMAIN sessionHeaders

=============================================================================
